---- MODULE Spec2Model ----
(***************************************************************************)
(* Interpol red-notice scrapers: the HTML scraper (src/main.py) and the    *)
(* JSON scraper (src/interpol_scraper_bs4.py).                             *)
(*                                                                         *)
(* A Python str is a sequence of characters; a character is a one-letter   *)
(* string.  Characters outside ASCII are written by name:                  *)
(*   "e_acute" U+00E9, "E_ACUTE" U+00C9, "A_CIRC" U+00C2,                  *)
(*   "c_cedilla" U+00E7, "RSQUO" U+2019, "NBSP" U+00A0, "SUP2" U+00B2,     *)
(*   "TAB" U+0009, "LF" U+000A, and the combining marks "COMB_ACUTE"       *)
(*   U+0301, "COMB_CIRC" U+0302, "COMB_CEDILLA" U+0327.                    *)
(***************************************************************************)
EXTENDS Integers, Sequences, FiniteSets, TLC

VARIABLES
    key_pc, key_arg, key_ret,   \* one call of normalize_identification_key
    age_pc, age_arg, age_ret,   \* one call of compute_age_from_date_text
    current_year,               \* datetime.now().year, read from the clock
    ident_pairs, data,          \* extract_identification: the pairs its loop
                                \* has folded so far, and its dict `data`
    scrape_pc, soup,            \* one call of scrape_notice: the fetched page,
    ident_container,            \* its two sections and the value it returns
    qualif_container, notice,
    main_pc, urls_file, urls,   \* main: where it is, the --urls-file and the
    next_url, rows, processed,  \* list read from it, the loop's position, its
    exit_code, csv_file,        \* locals, the exit status and the --output file
    attempts,                   \* main: what fetch_soup returned, URL by URL
    extract_pc, section_doc,    \* the extractors called on one section: the
    dl_pairs, table_pairs,      \* section, the pairs of each strategy, the
    item_pairs, section_fields, \* dict of extract_identification and the
    charges,                    \* summary of extract_qualification
    row_pc, row_pairs,          \* one call of Notice.to_row: the pairs the
    row_self, row_ret,          \* notice was made from, the notice, the row
    environ, session,           \* interpol_scraper_bs4: os.environ, the headers
    fetch_pc, fetch_arg,        \* of the global _session, and the calls of
    fetch_ret, sent, calls,     \* fetch_page with the requests they sent
    pages_pc, max_pages,        \* one call of scrape_all_notices_bs4: its
    first_page, total_pages,    \* argument, its locals, the pages it asked
    page_no, all_people,        \* fetch_page for and the list it returns
    fetched, people_ret

keyVars == <<key_pc, key_arg, key_ret>>
ageVars == <<age_pc, age_arg, age_ret>>
identVars == <<ident_pairs, data>>
scrapeVars == <<scrape_pc, soup, ident_container, qualif_container, notice>>
mainVars == <<main_pc, urls_file, urls, next_url, rows, processed, exit_code,
              csv_file, attempts>>
extractVars == <<extract_pc, section_doc, dl_pairs, table_pairs, item_pairs,
                 section_fields, charges>>
rowVars == <<row_pc, row_pairs, row_self, row_ret>>
fetchVars == <<environ, session, fetch_pc, fetch_arg, fetch_ret, sent, calls>>
pagesVars == <<pages_pc, max_pages, first_page, total_pages, page_no,
               all_people, fetched, people_ret>>
laterVars == <<extractVars, rowVars, fetchVars, pagesVars>>
vars == <<keyVars, ageVars, identVars, scrapeVars, mainVars, current_year,
          laterVars>>

(***************************************************************************)
(* Bounds of the model.                                                    *)
(***************************************************************************)
\* Longest label of the key normalizer's input, in fragments.
MaxFrags == 3
\* Longest birth-date text, in fragments.
MaxDateParts == 3
\* Most pairs folded by one call of extract_identification.
MaxPairs == 3
\* Most elements of a fetched page, the document node aside.
MaxNodes == 4
\* Most lines of the --urls-file.
MaxLines == 3
\* Most calls of fetch_page on one session.
MaxCalls == 2
\* Most full pages of results the API announces.
MaxFullPages == 2

(***************************************************************************)
(* Python str primitives used by the text utilities.                       *)
(***************************************************************************)
\* str.isspace of one character (the whitespace characters of the alphabet).
WhitespaceChars == {" ", "NBSP", "TAB", "LF"}

IsSpace(ch) == ch \in WhitespaceChars

\* unicodedata.combining(ch) # 0
combining(ch) == ch \in {"COMB_ACUTE", "COMB_CIRC", "COMB_CEDILLA"}

\* unicodedata.normalize("NFD", ch) of one character
NFD(ch) ==
    CASE ch = "e_acute" -> <<"e", "COMB_ACUTE">>
      [] ch = "E_ACUTE" -> <<"E", "COMB_ACUTE">>
      [] ch = "A_CIRC" -> <<"A", "COMB_CIRC">>
      [] ch = "c_cedilla" -> <<"c", "COMB_CEDILLA">>
      [] OTHER -> <<ch>>

UpperCase == <<"A", "B", "C", "D", "E", "F", "G", "H", "I", "J", "K", "L", "M", "N", "O", "P", "Q", "R", "S", "T", "U", "V", "W", "X", "Y", "Z">>

LowerCase == <<"a", "b", "c", "d", "e", "f", "g", "h", "i", "j", "k", "l", "m", "n", "o", "p", "q", "r", "s", "t", "u", "v", "w", "x", "y", "z">>

\* The lowercase of every character that has one.
ToLower ==
    [ch \in {UpperCase[i] : i \in 1..Len(UpperCase)} \cup {"E_ACUTE", "A_CIRC"} |->
        IF ch = "E_ACUTE" THEN "e_acute"
        ELSE IF ch = "A_CIRC" THEN "a_circ"
        ELSE LowerCase[CHOOSE i \in 1..Len(UpperCase) : UpperCase[i] = ch]]

\* str.lower of one character
LowerChar(ch) == IF ch \in DOMAIN ToLower THEN ToLower[ch] ELSE ch

\* str.lower
lower(text) == SubSeq([i \in 1..Len(text) |-> LowerChar(text[i])], 1, Len(text))

RECURSIVE lstrip(_)
\* str.lstrip
lstrip(text) ==
    IF text # <<>> /\ IsSpace(Head(text)) THEN lstrip(Tail(text)) ELSE text

RECURSIVE rstrip(_)
\* str.rstrip
rstrip(text) ==
    IF text # <<>> /\ IsSpace(text[Len(text)])
    THEN rstrip(SubSeq(text, 1, Len(text) - 1))
    ELSE text

\* str.strip
strip(text) == rstrip(lstrip(text))

\* str.replace(old, new) for one-character old and new
replace(text, old, new) ==
    SubSeq([i \in 1..Len(text) |-> IF text[i] = old THEN new ELSE text[i]], 1, Len(text))

\* Length of the leading run of non-whitespace characters of text.
WordLen(text) ==
    LET spaces == {i \in 1..Len(text) : IsSpace(text[i])}
    IN  IF spaces = {} THEN Len(text)
        ELSE (CHOOSE i \in spaces : \A j \in spaces : i <= j) - 1

RECURSIVE split(_)
\* str.split() with no argument: the maximal runs of non-whitespace
split(text) ==
    LET t == lstrip(text)
        n == WordLen(t)
    IN  IF t = <<>> THEN <<>>
        ELSE <<SubSeq(t, 1, n)>> \o split(SubSeq(t, n + 1, Len(t)))

RECURSIVE join(_, _)
\* sep.join(parts)
join(sep, parts) ==
    IF parts = <<>> THEN <<>>
    ELSE IF Len(parts) = 1 THEN parts[1]
    ELSE parts[1] \o sep \o join(sep, Tail(parts))

\* sub in text
Contains(sub, text) ==
    \E i \in 0..(Len(text) - Len(sub)) : SubSeq(text, i + 1, i + Len(sub)) = sub

RECURSIVE ConcatFrom(_, _, _)
\* The concatenation of the texts parts[i], ..., parts[n], by halves
ConcatFrom(parts, i, n) ==
    IF i > n THEN <<>>
    ELSE IF i = n THEN parts[i]
    ELSE ConcatFrom(parts, i, (i + n) \div 2) \o ConcatFrom(parts, (i + n) \div 2 + 1, n)

\* "".join(parts)
Concat(parts) == ConcatFrom(parts, 1, Len(parts))

\* The sequences of at most n elements of S.
SeqsUpTo(S, n) == UNION {[1..k -> S] : k \in 0..n}

(***************************************************************************)
(* Text utilities (src/main.py).                                           *)
(***************************************************************************)
strip_accents(text) ==
    SelectSeq(Concat([i \in 1..Len(text) |-> NFD(text[i])]), LAMBDA ch : ~combining(ch))

clean_text(text) == strip(join(<<" ">>, split(replace(text, "NBSP", " "))))

IDENTIFICATION_KEYWORDS == <<
    <<"E_ACUTE", "l", "e_acute", "m", "e", "n", "t", "s", " ", "d", "'", "i", "d", "e", "n", "t", "i", "f", "i", "c", "a", "t", "i", "o", "n">>,
    <<"E", "l", "e", "m", "e", "n", "t", "s", " ", "d", "'", "i", "d", "e", "n", "t", "i", "f", "i", "c", "a", "t", "i", "o", "n">>,
    <<"E", "l", "e", "m", "e", "n", "t", "s", " ", "d", " ", "i", "d", "e", "n", "t", "i", "f", "i", "c", "a", "t", "i", "o", "n">>,
    <<"E_ACUTE", "l", "e_acute", "m", "e", "n", "t", "s", " ", "d", "RSQUO", "i", "d", "e", "n", "t", "i", "f", "i", "c", "a", "t", "i", "o", "n">>,
    <<"I", "d", "e", "n", "t", "i", "f", "i", "c", "a", "t", "i", "o", "n">> >>

QUALIFICATION_KEYWORDS == <<
    <<"Q", "u", "a", "l", "i", "f", "i", "c", "a", "t", "i", "o", "n", " ", "d", "e", " ", "l", "'", "i", "n", "f", "r", "a", "c", "t", "i", "o", "n">>,
    <<"Q", "u", "a", "l", "i", "f", "i", "c", "a", "t", "i", "o", "n", " ", "d", "e", " ", "l", "RSQUO", "i", "n", "f", "r", "a", "c", "t", "i", "o", "n">>,
    <<"Q", "u", "a", "l", "i", "f", "i", "c", "a", "t", "i", "o", "n", " ", "d", "e", "s", " ", "i", "n", "f", "r", "a", "c", "t", "i", "o", "n", "s">>,
    <<"Q", "u", "a", "l", "i", "f", "i", "c", "a", "t", "i", "o", "n", " ", "d", "e", "(", "s", ")", " ", "l", "'", "i", "n", "f", "r", "a", "c", "t", "i", "o", "n", "(", "s", ")">>,
    <<"I", "n", "f", "r", "a", "c", "t", "i", "o", "n">>,
    <<"I", "n", "f", "r", "a", "c", "t", "i", "o", "n", "s">>,
    <<"O", "f", "f", "e", "n", "c", "e">>,
    <<"O", "f", "f", "e", "n", "c", "e", "s">>,
    <<"C", "h", "a", "r", "g", "e", "s">> >>

\* strip_accents(n).lower() of every keyword n, computed once.
KeywordForms ==
    [n \in {IDENTIFICATION_KEYWORDS[i] : i \in 1..Len(IDENTIFICATION_KEYWORDS)}
            \cup {QUALIFICATION_KEYWORDS[i] : i \in 1..Len(QUALIFICATION_KEYWORDS)} |->
        lower(strip_accents(n))]

\* strip_accents(n).lower()
NeedleForm(n) ==
    IF n \in DOMAIN KeywordForms THEN KeywordForms[n] ELSE lower(strip_accents(n))

contains_any(haystack, needles) ==
    LET base == lower(strip_accents(haystack))
    IN  \E i \in 1..Len(needles) : Contains(NeedleForm(needles[i]), base)

(***************************************************************************)
(* Key normalizer (src/main.py, normalize_identification_key).             *)
(***************************************************************************)
\* The dict literal `mapping`: <<normalized label, column>>.
KeyMapping == <<
    <<<<"n", "o", "m">>, <<"N", "o", "m">>>>,
    <<<<"s", "u", "r", "n", "a", "m", "e">>, <<"N", "o", "m">>>>,
    <<<<"n", "o", "m", " ", "d", "e", " ", "f", "a", "m", "i", "l", "l", "e">>, <<"N", "o", "m">>>>,
    <<<<"p", "r", "e", "n", "o", "m">>, <<"P", "r", "e_acute", "n", "o", "m">>>>,
    <<<<"p", "r", "e", "n", "o", "m", "s">>, <<"P", "r", "e_acute", "n", "o", "m">>>>,
    <<<<"f", "o", "r", "e", "n", "a", "m", "e">>, <<"P", "r", "e_acute", "n", "o", "m">>>>,
    <<<<"g", "i", "v", "e", "n", " ", "n", "a", "m", "e", "s">>, <<"P", "r", "e_acute", "n", "o", "m">>>>,
    <<<<"s", "e", "x", "e">>, <<"S", "e", "x", "e">>>>,
    <<<<"s", "e", "x">>, <<"S", "e", "x", "e">>>>,
    <<<<"d", "a", "t", "e", " ", "d", "e", " ", "n", "a", "i", "s", "s", "a", "n", "c", "e">>, <<"D", "a", "t", "e", " ", "d", "e", " ", "n", "a", "i", "s", "s", "a", "n", "c", "e">>>>,
    <<<<"d", "a", "t", "e", " ", "o", "f", " ", "b", "i", "r", "t", "h">>, <<"D", "a", "t", "e", " ", "d", "e", " ", "n", "a", "i", "s", "s", "a", "n", "c", "e">>>>,
    <<<<"l", "i", "e", "u", " ", "d", "e", " ", "n", "a", "i", "s", "s", "a", "n", "c", "e">>, <<"L", "i", "e", "u", " ", "d", "e", " ", "n", "a", "i", "s", "s", "a", "n", "c", "e">>>>,
    <<<<"p", "l", "a", "c", "e", " ", "o", "f", " ", "b", "i", "r", "t", "h">>, <<"L", "i", "e", "u", " ", "d", "e", " ", "n", "a", "i", "s", "s", "a", "n", "c", "e">>>>,
    <<<<"p", "a", "y", "s", " ", "d", "e", " ", "n", "a", "i", "s", "s", "a", "n", "c", "e">>, <<"P", "a", "y", "s", " ", "d", "e", " ", "n", "a", "i", "s", "s", "a", "n", "c", "e">>>>,
    <<<<"c", "o", "u", "n", "t", "r", "y", " ", "o", "f", " ", "b", "i", "r", "t", "h">>, <<"P", "a", "y", "s", " ", "d", "e", " ", "n", "a", "i", "s", "s", "a", "n", "c", "e">>>>,
    <<<<"n", "a", "t", "i", "o", "n", "a", "l", "i", "t", "e">>, <<"N", "a", "t", "i", "o", "n", "a", "l", "i", "t", "e_acute">>>>,
    <<<<"n", "a", "t", "i", "o", "n", "a", "l", "i", "t", "e", "s">>, <<"N", "a", "t", "i", "o", "n", "a", "l", "i", "t", "e_acute">>>>,
    <<<<"n", "a", "t", "i", "o", "n", "a", "l", "i", "t", "y">>, <<"N", "a", "t", "i", "o", "n", "a", "l", "i", "t", "e_acute">>>>,
    <<<<"n", "a", "t", "i", "o", "n", "a", "l", "i", "t", "i", "e", "s">>, <<"N", "a", "t", "i", "o", "n", "a", "l", "i", "t", "e_acute">>>>,
    <<<<"t", "a", "i", "l", "l", "e">>, <<"T", "a", "i", "l", "l", "e", " ", "(", "c", "m", ")">>>>,
    <<<<"h", "e", "i", "g", "h", "t">>, <<"T", "a", "i", "l", "l", "e", " ", "(", "c", "m", ")">>>>,
    <<<<"p", "o", "i", "d", "s">>, <<"P", "o", "i", "d", "s", " ", "(", "k", "g", ")">>>>,
    <<<<"w", "e", "i", "g", "h", "t">>, <<"P", "o", "i", "d", "s", " ", "(", "k", "g", ")">>>>,
    <<<<"c", "o", "u", "l", "e", "u", "r", " ", "d", "e", "s", " ", "y", "e", "u", "x">>, <<"C", "o", "u", "l", "e", "u", "r", " ", "d", "e", "s", " ", "y", "e", "u", "x">>>>,
    <<<<"e", "y", "e", "s">>, <<"C", "o", "u", "l", "e", "u", "r", " ", "d", "e", "s", " ", "y", "e", "u", "x">>>>,
    <<<<"c", "o", "u", "l", "e", "u", "r", " ", "d", "e", "s", " ", "c", "h", "e", "v", "e", "u", "x">>, <<"C", "o", "u", "l", "e", "u", "r", " ", "d", "e", "s", " ", "c", "h", "e", "v", "e", "u", "x">>>>,
    <<<<"h", "a", "i", "r">>, <<"C", "o", "u", "l", "e", "u", "r", " ", "d", "e", "s", " ", "c", "h", "e", "v", "e", "u", "x">>>>,
    <<<<"l", "a", "n", "g", "u", "e", "s">>, <<"L", "a", "n", "g", "u", "e", "s">>>>,
    <<<<"l", "a", "n", "g", "u", "a", "g", "e", "s">>, <<"L", "a", "n", "g", "u", "e", "s">>>>,
    <<<<"a", "l", "i", "a", "s">>, <<"A", "l", "i", "a", "s">>>>,
    <<<<"a", "l", "i", "a", "s", "e", "s">>, <<"A", "l", "i", "a", "s">>>>,
    <<<<"i", "d", "e", "n", "t", "i", "t", "e">>, <<"I", "d", "e", "n", "t", "i", "t", "e_acute">>>>,
    <<<<"i", "d", "e", "n", "t", "i", "t", "e", "s">>, <<"I", "d", "e", "n", "t", "i", "t", "e_acute">>>> >>

\* key in mapping
MappingHas(key) == \E i \in 1..Len(KeyMapping) : KeyMapping[i][1] = key

\* mapping[key]
MappingGet(key) ==
    KeyMapping[CHOOSE i \in 1..Len(KeyMapping) : KeyMapping[i][1] = key][2]

\* A slip in the order of the approximate rules: 'nation' tried before the
\* eye and hair rules, and the place/country tests swapped.
normalize_identification_key_reordered(raw_key) ==
    LET key == strip(lower(strip_accents(raw_key)))
    IN  IF MappingHas(key) THEN MappingGet(key)
        ELSE IF Contains(<<"n", "a", "t", "i", "o", "n">>, key) THEN <<"N", "a", "t", "i", "o", "n", "a", "l", "i", "t", "e_acute">>
        ELSE IF Contains(<<"y", "e", "u", "x">>, key) \/ Contains(<<"e", "y", "e", "s">>, key)
             THEN <<"C", "o", "u", "l", "e", "u", "r", " ", "d", "e", "s", " ", "y", "e", "u", "x">>
        ELSE IF Contains(<<"c", "h", "e", "v", "e", "u", "x">>, key) \/ Contains(<<"h", "a", "i", "r">>, key)
             THEN <<"C", "o", "u", "l", "e", "u", "r", " ", "d", "e", "s", " ", "c", "h", "e", "v", "e", "u", "x">>
        ELSE IF Contains(<<"b", "i", "r", "t", "h">>, key) \/ Contains(<<"n", "a", "i", "s", "s", "a", "n", "c", "e">>, key)
             THEN IF Contains(<<"p", "a", "y", "s">>, key) \/ Contains(<<"c", "o", "u", "n", "t", "r", "y">>, key)
                  THEN <<"P", "a", "y", "s", " ", "d", "e", " ", "n", "a", "i", "s", "s", "a", "n", "c", "e">>
                  ELSE IF Contains(<<"l", "i", "e", "u">>, key) \/ Contains(<<"p", "l", "a", "c", "e">>, key)
                  THEN <<"L", "i", "e", "u", " ", "d", "e", " ", "n", "a", "i", "s", "s", "a", "n", "c", "e">>
                  ELSE <<"D", "a", "t", "e", " ", "d", "e", " ", "n", "a", "i", "s", "s", "a", "n", "c", "e">>
        ELSE strip(raw_key)

normalize_identification_key(raw_key) ==
    LET key == strip(lower(strip_accents(raw_key)))
    IN  IF MappingHas(key) THEN MappingGet(key)
        ELSE IF Contains(<<"y", "e", "u", "x">>, key) \/ Contains(<<"e", "y", "e", "s">>, key)
             THEN <<"C", "o", "u", "l", "e", "u", "r", " ", "d", "e", "s", " ", "y", "e", "u", "x">>
        ELSE IF Contains(<<"c", "h", "e", "v", "e", "u", "x">>, key) \/ Contains(<<"h", "a", "i", "r">>, key)
             THEN <<"C", "o", "u", "l", "e", "u", "r", " ", "d", "e", "s", " ", "c", "h", "e", "v", "e", "u", "x">>
        ELSE IF Contains(<<"n", "a", "t", "i", "o", "n">>, key) THEN <<"N", "a", "t", "i", "o", "n", "a", "l", "i", "t", "e_acute">>
        ELSE IF Contains(<<"b", "i", "r", "t", "h">>, key) \/ Contains(<<"n", "a", "i", "s", "s", "a", "n", "c", "e">>, key)
             THEN IF Contains(<<"l", "i", "e", "u">>, key) \/ Contains(<<"p", "l", "a", "c", "e">>, key)
                  THEN <<"L", "i", "e", "u", " ", "d", "e", " ", "n", "a", "i", "s", "s", "a", "n", "c", "e">>
                  ELSE IF Contains(<<"p", "a", "y", "s">>, key) \/ Contains(<<"c", "o", "u", "n", "t", "r", "y">>, key)
                  THEN <<"P", "a", "y", "s", " ", "d", "e", " ", "n", "a", "i", "s", "s", "a", "n", "c", "e">>
                  ELSE <<"D", "a", "t", "e", " ", "d", "e", " ", "n", "a", "i", "s", "s", "a", "n", "c", "e">>
        ELSE strip(raw_key)

(***************************************************************************)
(* Labels handed to the key normalizer.  extract_identification takes them *)
(* from the pair extractors, which return cleaned text, so a label is      *)
(* clean_text of what the page holds: here, of up to MaxFrags fragments.   *)
(***************************************************************************)
LabelFragments == {
    <<"N", "o", "m">>, <<"D", "a", "t", "e", " ", "d", "e", " ">>, <<"l", "i", "e", "u", " ", "d", "e", " ">>, <<"P", "a", "y", "s", " ">>, <<"n", "a", "i", "s", "s", "a", "n", "c", "e">>, <<"B", "i", "r", "t", "h">>,
    <<"p", "l", "a", "c", "e">>, <<"c", "o", "u", "n", "t", "r", "y">>, <<"y", "e", "u", "x">>, <<"E", "y", "e", "s">>, <<"h", "a", "i", "r">>, <<"c", "h", "e", "v", "e", "u", "x">>,
    <<"N", "a", "t", "i", "o", "n">>, <<"a", "l", "i", "t", "e_acute">>, <<"I", "d", "e", "n", "t", "i", "t">>, <<"I", "D", "E", "N", "T", "I", "T">>, <<"e">>, <<"e_acute">>, <<"E_ACUTE">>,
    <<"s">>, <<" ">>, <<"S", "i", "g", "n", "e", "s">> }

\* The labels made of at most n fragments.
Labels(n) == {clean_text(Concat(fs)) : fs \in SeqsUpTo(LabelFragments, n)}

KeyIdle == key_pc = "idle" /\ key_arg = <<>> /\ key_ret = <<>>

KeyInit ==
    /\ key_pc = "call"
    /\ key_arg \in Labels(MaxFrags)
    /\ key_ret = <<>>

\* key = normalize_identification_key(raw_key)   (src/main.py:285)
NormalizeKey ==
    /\ key_pc = "call"
    /\ key_ret' = normalize_identification_key(key_arg)
    /\ key_pc' = "return"
    /\ UNCHANGED <<key_arg, ageVars, identVars, scrapeVars, mainVars, current_year, laterVars>>

(***************************************************************************)
(* Derived age (src/main.py, compute_age_from_date_text).                  *)
(***************************************************************************)
DecimalDigits == <<"0", "1", "2", "3", "4", "5", "6", "7", "8", "9">>

IsDecimal(ch) == \E i \in 1..10 : DecimalDigits[i] = ch

\* str.isdigit of one character: the decimal digits, and digits such as
\* SUPERSCRIPT TWO that int() does not accept.
isdigit(ch) == IsDecimal(ch) \/ ch = "SUP2"

DigitValue(ch) == (CHOOSE i \in 1..10 : DecimalDigits[i] = ch) - 1

RECURSIVE int(_)
\* int(s) of a string of decimal digits
int(s) ==
    IF s = <<>> THEN 0
    ELSE 10 * int(SubSeq(s, 1, Len(s) - 1)) + DigitValue(s[Len(s)])

\* int(s) raises ValueError
IntRaises(s) == s = <<>> \/ \E i \in 1..Len(s) : ~IsDecimal(s[i])

RECURSIVE str(_)
\* str(n) of a natural number
str(n) ==
    IF n < 10 THEN <<DecimalDigits[n + 1]>>
    ELSE str(n \div 10) \o <<DecimalDigits[(n % 10) + 1]>>

\* A slip in the range test: the lower limit applied to the age, not the year.
compute_age_from_date_text_no_floor(date_text) ==
    IF date_text = <<>> THEN <<>>
    ELSE LET digits == SelectSeq(date_text, isdigit)
         IN  IF Len(digits) < 4 THEN <<>>
             ELSE IF IntRaises(SubSeq(digits, 1, 4)) THEN <<>>
             ELSE LET year == int(SubSeq(digits, 1, 4))
                  IN  IF year <= current_year
                      THEN LET age == current_year - year
                           IN  IF age >= 0 THEN str(age) ELSE <<>>
                      ELSE <<>>

compute_age_from_date_text(date_text) ==
    IF date_text = <<>> THEN <<>>
    ELSE LET digits == SelectSeq(date_text, isdigit)
         IN  IF Len(digits) < 4 THEN <<>>
             ELSE IF IntRaises(SubSeq(digits, 1, 4)) THEN <<>>
             ELSE LET year == int(SubSeq(digits, 1, 4))
                  IN  IF 1900 <= year /\ year <= current_year
                      THEN LET age == current_year - year
                           IN  IF age > 0 THEN str(age) ELSE <<>>
                      ELSE <<>>

\* Years the clock may show.
ClockYears == {2026, 2027}

\* Birth-date texts: clean_text of up to MaxDateParts fragments.
DateFragments == {
    <<"1", "9">>, <<"8", "0">>, <<"0", "0">>, <<"2", "0">>, <<"2", "6">>, <<"2", "7">>, <<"1", "8">>, <<"9", "9">>, <<"1">>,
    <<"/">>, <<" ">>, <<"SUP2">>, <<"v", "e", "r", "s", " ">> }

\* The date texts made of at most n fragments.
DateTexts(n) == {clean_text(Concat(fs)) : fs \in SeqsUpTo(DateFragments, n)}

AgeIdle == age_pc = "idle" /\ age_arg = <<>> /\ age_ret = <<>>

AgeInit ==
    /\ age_pc = "call"
    /\ age_arg \in DateTexts(MaxDateParts)
    /\ age_ret = <<>>

\* base["Age"] = compute_age_from_date_text(...)   (src/main.py:363)
ComputeAge ==
    /\ age_pc = "call"
    /\ age_ret' = compute_age_from_date_text(age_arg)
    /\ age_pc' = "return"
    /\ UNCHANGED <<age_arg, current_year, keyVars, identVars, scrapeVars, mainVars, laterVars>>

(***************************************************************************)
(* Record assembler (src/main.py, extract_identification).  A dict is the  *)
(* sequence of its <<key, value>> items in insertion order.                *)
(***************************************************************************)
\* key in d
DictHas(d, key) == \E i \in 1..Len(d) : d[i][1] = key

\* d[key], and d.get(key, "") when the key is absent
DictGet(d, key) ==
    IF DictHas(d, key) THEN d[CHOOSE i \in 1..Len(d) : d[i][1] = key][2] ELSE <<>>

RECURSIVE DictSet(_, _, _)
\* d[key] = value: a present key keeps its place, a new one goes last
DictSet(d, key, value) ==
    IF d = <<>> THEN << <<key, value>> >>
    ELSE IF Head(d)[1] = key THEN << <<key, value>> >> \o Tail(d)
    ELSE <<Head(d)>> \o DictSet(Tail(d), key, value)

\* A slip in the test of line 290: the value is appended to a stored value
\* even when the stored value holds it already.
merge_pair_without_membership_test(d, raw_key, raw_val) ==
    LET key == normalize_identification_key(raw_key)
        val == clean_text(raw_val)
    IN  IF val = <<>> THEN d
        ELSE IF DictHas(d, key) /\ DictGet(d, key) # <<>>
             THEN DictSet(d, key, DictGet(d, key) \o <<";", " ">> \o val)
        ELSE DictSet(d, key, val)

\* One iteration of `for raw_key, raw_val in pairs`   (src/main.py:284-293)
merge_pair(d, raw_key, raw_val) ==
    LET key == normalize_identification_key(raw_key)
        val == clean_text(raw_val)
    IN  IF val = <<>> THEN d
        ELSE IF DictHas(d, key) /\ DictGet(d, key) # <<>>
                    /\ ~Contains(val, DictGet(d, key))
             THEN DictSet(d, key, DictGet(d, key) \o <<";", " ">> \o val)
        ELSE DictSet(d, key, val)

RECURSIVE fold_pairs(_, _)
\* The whole loop over `pairs`, from the dict d   (src/main.py:283-294)
fold_pairs(d, pairs) ==
    IF pairs = <<>> THEN d
    ELSE fold_pairs(merge_pair(d, pairs[1][1], pairs[1][2]), Tail(pairs))

\* Labels and values of the pairs the extractors hand over (cleaned text).
PairLabels == {<<"N", "a", "t", "i", "o", "n", "a", "l", "i", "t", "e_acute">>, <<"n", "a", "t", "i", "o", "n", "a", "l", "i", "t", "y">>, <<"N", "o", "m">>, <<"S", "i", "g", "n", "e", "s">>, <<>>}

PairValues == {<<"F">>, <<"F", "R">>, <<"B", "E">>, <<>>, <<"F", "r", "a", "n", "c_cedilla", "a", "i", "s", "e">>, <<"B", "E", ";", " ", "F">>}

IdentIdle == ident_pairs = <<>> /\ data = <<>>

IdentInit == ident_pairs = <<>> /\ data = <<>>

\* The loop of extract_identification takes its next pair.
FoldPair ==
    /\ Len(ident_pairs) < MaxPairs
    /\ \E raw_key \in PairLabels, raw_val \in PairValues :
          /\ raw_key # <<>> \/ raw_val # <<>>
          /\ ident_pairs' = Append(ident_pairs, <<raw_key, raw_val>>)
          /\ data' = merge_pair(data, raw_key, raw_val)
    /\ UNCHANGED <<keyVars, ageVars, scrapeVars, mainVars, current_year, laterVars>>

(***************************************************************************)
(* Parsed pages.  A page is the sequence of its nodes in document order;   *)
(* node 1 is the BeautifulSoup object, and every node holds its tag, its   *)
(* parent (0 for node 1) and the text it holds before its first child.     *)
(* None, for a page or a node, is <<>> or 0.                               *)
(***************************************************************************)
RECURSIVE Ancestors(_, _)
\* el.parents, as a set
Ancestors(doc, n) ==
    IF doc[n].parent = 0 THEN {}
    ELSE {doc[n].parent} \cup Ancestors(doc, doc[n].parent)

RECURSIVE NodeIds(_)
\* The nodes 1..n, in document order.
NodeIds(n) == IF n = 0 THEN <<>> ELSE Append(NodeIds(n - 1), n)

\* el.find_all(tags): the descendants of el with one of the tags
find_all(doc, el, tags) ==
    SelectSeq(NodeIds(Len(doc)),
              LAMBDA m : doc[m].tag \in tags /\ el \in Ancestors(doc, m))

\* el.find_parent(tag): the nearest ancestor with the tag, or None
find_parent(doc, el, tag) ==
    LET up == {a \in Ancestors(doc, el) : doc[a].tag = tag}
    IN  IF up = {} THEN 0 ELSE CHOOSE a \in up : \A b \in up : b <= a

RECURSIVE TextsOf(_, _)
\* The texts of the nodes of a sequence.
TextsOf(doc, nodes) ==
    IF nodes = <<>> THEN <<>>
    ELSE <<strip(doc[Head(nodes)].text)>> \o TextsOf(doc, Tail(nodes))

\* el.get_text(" ", strip=True): the stripped, non-empty strings of el and
\* its descendants, joined by one space
get_text(doc, el) ==
    LET inside == SelectSeq(NodeIds(Len(doc)),
                            LAMBDA m : m = el \/ el \in Ancestors(doc, m))
    IN  join(<<" ">>, SelectSeq(TextsOf(doc, inside), LAMBDA t : t # <<>>))

\* clean_text(el.get_text(" ", strip=True))
NodeText(doc, el) == clean_text(get_text(doc, el))

RECURSIVE NodeTexts(_, _)
\* [clean_text(el.get_text(" ", strip=True)) for el in nodes]
NodeTexts(doc, nodes) ==
    IF nodes = <<>> THEN <<>>
    ELSE <<NodeText(doc, Head(nodes))>> \o NodeTexts(doc, Tail(nodes))

(***************************************************************************)
(* Section locator (src/main.py, find_section_by_heading).                 *)
(***************************************************************************)
\* A slip in the comparison: a candidate as long as the title is taken.
SectionOfHeading_not_shorter(doc, h) ==
    LET title == NodeText(doc, h)
        parents == <<doc[h].parent, find_parent(doc, h, "section"), find_parent(doc, h, "div")>>
        good == SelectSeq(parents,
                    LAMBDA parent : parent # 0 /\ Len(NodeText(doc, parent)) >= Len(title))
    IN  IF good # <<>> THEN Head(good) ELSE h

\* A slip in the order of the candidates: the <div> tried before the <section>.
SectionOfHeading_div_first(doc, h) ==
    LET title == NodeText(doc, h)
        parents == <<doc[h].parent, find_parent(doc, h, "div"), find_parent(doc, h, "section")>>
        good == SelectSeq(parents,
                    LAMBDA parent : parent # 0 /\ Len(NodeText(doc, parent)) > Len(title))
    IN  IF good # <<>> THEN Head(good) ELSE h

\* What is returned for the heading h that matched   (src/main.py:171-174)
SectionOfHeading(doc, h) ==
    LET title == NodeText(doc, h)
        parents == <<doc[h].parent, find_parent(doc, h, "section"), find_parent(doc, h, "div")>>
        good == SelectSeq(parents,
                    LAMBDA parent : parent # 0 /\ Len(NodeText(doc, parent)) > Len(title))
    IN  IF good # <<>> THEN Head(good) ELSE h

\* `if not title: continue` and `if contains_any(title, keywords)`
HeadingMatches(doc, h, keywords) ==
    LET title == NodeText(doc, h)
    IN  title # <<>> /\ contains_any(title, keywords)

\* The headings scanned top to bottom whatever their level.
find_section_by_heading_document_order(doc, keywords) ==
    LET hits == SelectSeq(find_all(doc, 1, {"h1", "h2", "h3", "h4", "h5"}),
                          LAMBDA h : HeadingMatches(doc, h, keywords))
    IN  IF hits = <<>> THEN 0 ELSE SectionOfHeading(doc, Head(hits))

find_section_by_heading(doc, keywords) ==
    LET scan == find_all(doc, 1, {"h1"}) \o find_all(doc, 1, {"h2"})
                  \o find_all(doc, 1, {"h3"}) \o find_all(doc, 1, {"h4"})
                  \o find_all(doc, 1, {"h5"})
        hits == SelectSeq(scan, LAMBDA h : HeadingMatches(doc, h, keywords))
    IN  IF hits = <<>> THEN 0 ELSE SectionOfHeading(doc, Head(hits))

(***************************************************************************)
(* Pair extractor (src/main.py).                                           *)
(***************************************************************************)
\* min(a, b)
Min(a, b) == IF a <= b THEN a ELSE b

RECURSIVE ZipPairs(_, _)
\* The pairs (keys[i], vals[i]), i < min(len), with a non-empty side.
ZipPairs(keys, vals) ==
    IF keys = <<>> \/ vals = <<>> THEN <<>>
    ELSE (IF Head(keys) # <<>> \/ Head(vals) # <<>>
          THEN << <<Head(keys), Head(vals)>> >> ELSE <<>>)
             \o ZipPairs(Tail(keys), Tail(vals))

\* A slip in the filter: a pair is kept even when both of its sides are empty.
extract_pairs_from_dl_keeps_empty(doc, container) ==
    LET dls == find_all(doc, container, {"dl"})
    IN  Concat([i \in 1..Len(dls) |->
                   LET dts == NodeTexts(doc, find_all(doc, dls[i], {"dt"}))
                       dds == NodeTexts(doc, find_all(doc, dls[i], {"dd"}))
                       n == Min(Len(dts), Len(dds))
                   IN  SubSeq([k \in 1..n |-> <<dts[k], dds[k]>>], 1, n)])

extract_pairs_from_dl(doc, container) ==
    LET dls == find_all(doc, container, {"dl"})
    IN  Concat([i \in 1..Len(dls) |->
                   ZipPairs(NodeTexts(doc, find_all(doc, dls[i], {"dt"})),
                            NodeTexts(doc, find_all(doc, dls[i], {"dd"})))])

\* A slip in the value: the second cell alone instead of all the cells
\* after the first.
RowPairs_second_cell_only(doc, tr) ==
    LET cells == NodeTexts(doc, find_all(doc, tr, {"td", "th"}))
    IN  IF Len(cells) >= 2
        THEN LET key == cells[1]
                 val == cells[2]
             IN  IF key # <<>> \/ val # <<>> THEN << <<key, val>> >> ELSE <<>>
        ELSE <<>>

\* One <tr> of extract_pairs_from_tables   (src/main.py:195-200)
RowPairs(doc, tr) ==
    LET cells == NodeTexts(doc, find_all(doc, tr, {"td", "th"}))
    IN  IF Len(cells) >= 2
        THEN LET key == cells[1]
                 val == join(<<" ">>, Tail(cells))
             IN  IF key # <<>> \/ val # <<>> THEN << <<key, val>> >> ELSE <<>>
        ELSE <<>>

\* One <table> of extract_pairs_from_tables   (src/main.py:194-200)
TablePairs(doc, table) ==
    LET trs == find_all(doc, table, {"tr"})
    IN  Concat([i \in 1..Len(trs) |-> RowPairs(doc, trs[i])])

extract_pairs_from_tables(doc, container) ==
    LET tables == find_all(doc, container, {"table"})
    IN  Concat([i \in 1..Len(tables) |-> TablePairs(doc, tables[i])])

\* txt.split(":", 1), for a txt that holds a colon
SplitFirstColon(txt) ==
    LET at == CHOOSE i \in 1..Len(txt) :
                  txt[i] = ":" /\ \A j \in 1..(i - 1) : txt[j] # ":"
    IN  <<SubSeq(txt, 1, at - 1), SubSeq(txt, at + 1, Len(txt))>>

\* One <li> or <p> of extract_pairs_from_list_items   (src/main.py:208-215)
ItemPairs(doc, el) ==
    LET txt == NodeText(doc, el)
    IN  IF txt = <<>> \/ ~Contains(<<":">>, txt) THEN <<>>
        ELSE LET parts == SplitFirstColon(txt)
                 key == strip(parts[1])
                 val == strip(parts[2])
             IN  IF key # <<>> \/ val # <<>> THEN << <<key, val>> >> ELSE <<>>

extract_pairs_from_list_items(doc, container) ==
    LET els == find_all(doc, container, {"li", "p"})
    IN  Concat([i \in 1..Len(els) |-> ItemPairs(doc, els[i])])

extract_identification(doc, container) ==
    fold_pairs(<<>>, extract_pairs_from_dl(doc, container)
                         \o extract_pairs_from_tables(doc, container)
                         \o extract_pairs_from_list_items(doc, container))

\* A slip in the cutoff: the summary is returned whole.
extract_qualification_uncut(doc, container) ==
    LET nonEmpty(texts) == SelectSeq(texts, LAMBDA txt : txt # <<>>)
        items == nonEmpty(NodeTexts(doc, find_all(doc, container, {"li"})))
        bullets == IF items # <<>> THEN items
                   ELSE nonEmpty(NodeTexts(doc, find_all(doc, container, {"p"})))
    IN  join(<<";", " ">>, bullets)

extract_qualification(doc, container) ==
    LET nonEmpty(texts) == SelectSeq(texts, LAMBDA txt : txt # <<>>)
        items == nonEmpty(NodeTexts(doc, find_all(doc, container, {"li"})))
        bullets == IF items # <<>> THEN items
                   ELSE nonEmpty(NodeTexts(doc, find_all(doc, container, {"p"})))
        summary == join(<<";", " ">>, bullets)
    IN  SubSeq(summary, 1, Min(Len(summary), 1000))

(***************************************************************************)
(* Scraping one notice (src/main.py, Notice and scrape_notice).            *)
(***************************************************************************)
\* The value None where a Notice is expected.
None == [none |-> TRUE]

Notice(url, fields, infractions) ==
    [url |-> url, fields |-> fields, infractions |-> infractions]

\* A slip in the handling of a missing section: no record is built without
\* the identification section.
NoticeOfSections_needs_identification(url, page, ident, qualif) ==
    IF ident = 0 THEN None
    ELSE Notice(url, extract_identification(page, ident),
                IF qualif # 0 THEN extract_qualification(page, qualif) ELSE <<>>)

\* Lines 388-407 of scrape_notice, from the two sections it found.
NoticeOfSections(url, page, ident, qualif) ==
    Notice(url,
           IF ident # 0 THEN extract_identification(page, ident) ELSE <<>>,
           IF qualif # 0 THEN extract_qualification(page, qualif) ELSE <<>>)

\* scrape_notice, from the page fetch_soup returned (<<>> when it returned None)
scrape_notice(url, page) ==
    IF page = <<>> THEN None
    ELSE NoticeOfSections(url, page,
                          find_section_by_heading(page, IDENTIFICATION_KEYWORDS),
                          find_section_by_heading(page, QUALIFICATION_KEYWORDS))

(***************************************************************************)
(* Pages.  html.parser builds the page element by element, each one under  *)
(* an element that is still open; a page is any tree of at most MaxNodes   *)
(* of the elements below, where <div>, <section> and <header> have         *)
(* children.                                                               *)
(***************************************************************************)
ElementKinds == {
    [tag |-> "h1", text |-> <<"I", "d", "e", "n", "t", "i", "f", "i", "c", "a", "t", "i", "o", "n">>],
    [tag |-> "h3", text |-> <<"E_ACUTE", "L", "E_ACUTE", "M", "E", "N", "T", "S", " ", " ", "D", "'", "I", "D", "E", "N", "T", "I", "F", "I", "C", "A", "T", "I", "O", "N", ",", " ", "C", "H", "A", "R", "G", "E", "S">>],
    [tag |-> "p", text |-> <<"N", "o", "m", ":", " ", "D", "u", "p", "o", "n", "t">>],
    [tag |-> "div", text |-> <<>>],
    [tag |-> "section", text |-> <<"F", "i", "c", "h", "e">>],
    [tag |-> "header", text |-> <<>>] }

ContainerTags == {"[document]", "div", "section", "header"}

RootNode == [tag |-> "[document]", text |-> <<>>, parent |-> 0]

\* The elements of doc that are still open when its last one has been read.
OpenContainers(doc) ==
    {n \in 1..Len(doc) :
        /\ doc[n].tag \in ContainerTags
        /\ n = Len(doc) \/ n \in Ancestors(doc, Len(doc))}

ScrapeIdle ==
    /\ scrape_pc = "idle" /\ soup = <<>>
    /\ ident_container = 0 /\ qualif_container = 0 /\ notice = None

ScrapeInit ==
    /\ scrape_pc = "fetch"
    /\ soup = <<RootNode>>
    /\ ident_container = 0 /\ qualif_container = 0 /\ notice = None

\* BeautifulSoup(html, "html.parser") reads one more element   (src/main.py:135)
ParseElement ==
    /\ scrape_pc = "fetch"
    /\ Len(soup) <= MaxNodes
    /\ \E kind \in ElementKinds, p \in OpenContainers(soup) :
          soup' = Append(soup, [tag |-> kind.tag, text |-> kind.text, parent |-> p])
    /\ UNCHANGED <<scrape_pc, ident_container, qualif_container, notice>>
    /\ UNCHANGED <<keyVars, ageVars, identVars, mainVars, current_year, laterVars>>

\* scrape_notice when fetch_soup returns None   (src/main.py:381-383)
ScrapeNoticeNoSoup ==
    /\ scrape_pc = "fetch"
    /\ soup = <<RootNode>>
    /\ soup' = <<>>
    /\ notice' = scrape_notice(<<"u", "1">>, soup')
    /\ scrape_pc' = "return"
    /\ UNCHANGED <<ident_container, qualif_container, keyVars, ageVars, identVars, mainVars, current_year, laterVars>>

\* scrape_notice when fetch_soup returns the page   (src/main.py:381-407)
ScrapeNotice ==
    /\ scrape_pc = "fetch"
    /\ ident_container' = find_section_by_heading(soup, IDENTIFICATION_KEYWORDS)
    /\ qualif_container' = find_section_by_heading(soup, QUALIFICATION_KEYWORDS)
    /\ notice' = NoticeOfSections(<<"u", "1">>, soup, ident_container', qualif_container')
    /\ scrape_pc' = "return"
    /\ UNCHANGED <<soup, keyVars, ageVars, identVars, mainVars, current_year, laterVars>>

(***************************************************************************)
(* Output rows (src/main.py, Notice.to_row and write_csv).                 *)
(***************************************************************************)
\* The identification columns to_row never repeats in the last column.
IdentificationColumns == {
    <<"N", "o", "m">>, <<"P", "r", "e_acute", "n", "o", "m">>, <<"S", "e", "x", "e">>, <<"D", "a", "t", "e", " ", "d", "e", " ", "n", "a", "i", "s", "s", "a", "n", "c", "e">>, <<"L", "i", "e", "u", " ", "d", "e", " ", "n", "a", "i", "s", "s", "a", "n", "c", "e">>,
    <<"P", "a", "y", "s", " ", "d", "e", " ", "n", "a", "i", "s", "s", "a", "n", "c", "e">>, <<"N", "a", "t", "i", "o", "n", "a", "l", "i", "t", "e_acute">>, <<"T", "a", "i", "l", "l", "e", " ", "(", "c", "m", ")">>, <<"P", "o", "i", "d", "s", " ", "(", "k", "g", ")">>,
    <<"C", "o", "u", "l", "e", "u", "r", " ", "d", "e", "s", " ", "y", "e", "u", "x">>, <<"C", "o", "u", "l", "e", "u", "r", " ", "d", "e", "s", " ", "c", "h", "e", "v", "e", "u", "x">>, <<"L", "a", "n", "g", "u", "e", "s">>, <<"A", "l", "i", "a", "s">> }

RECURSIVE Extras(_, _)
\* The list `extras` of to_row, from the items of self.fields
Extras(items, base) ==
    IF items = <<>> THEN <<>>
    ELSE LET k == Head(items)[1]
             v == Head(items)[2]
             skip == \/ DictHas(base, k) /\ DictGet(base, k) # <<>>
                     \/ k \in IdentificationColumns
         IN  (IF ~skip /\ v # <<>> THEN <<k \o <<":", " ">> \o v>> ELSE <<>>)
                 \o Extras(Tail(items), base)

\* s[:1000]
Truncate(text) == SubSeq(text, 1, Min(Len(text), 1000))

to_row(self) ==
    LET get(k) == DictGet(self.fields, k)
        base == <<
            <<<<"U", "R", "L">>, self.url>>,
            <<<<"N", "o", "m">>, get(<<"N", "o", "m">>)>>,
            <<<<"P", "r", "e_acute", "n", "o", "m">>, get(<<"P", "r", "e_acute", "n", "o", "m">>)>>,
            <<<<"S", "e", "x", "e">>, get(<<"S", "e", "x", "e">>)>>,
            <<<<"D", "a", "t", "e", " ", "d", "e", " ", "n", "a", "i", "s", "s", "a", "n", "c", "e">>, get(<<"D", "a", "t", "e", " ", "d", "e", " ", "n", "a", "i", "s", "s", "a", "n", "c", "e">>)>>,
            <<<<"A_CIRC", "g", "e">>, compute_age_from_date_text(get(<<"D", "a", "t", "e", " ", "d", "e", " ", "n", "a", "i", "s", "s", "a", "n", "c", "e">>))>>,
            <<<<"N", "a", "t", "i", "o", "n", "a", "l", "i", "t", "e_acute">>, get(<<"N", "a", "t", "i", "o", "n", "a", "l", "i", "t", "e_acute">>)>>,
            <<<<"L", "i", "e", "u", " ", "d", "e", " ", "n", "a", "i", "s", "s", "a", "n", "c", "e">>, get(<<"L", "i", "e", "u", " ", "d", "e", " ", "n", "a", "i", "s", "s", "a", "n", "c", "e">>)>>,
            <<<<"P", "a", "y", "s", " ", "d", "e", " ", "n", "a", "i", "s", "s", "a", "n", "c", "e">>, get(<<"P", "a", "y", "s", " ", "d", "e", " ", "n", "a", "i", "s", "s", "a", "n", "c", "e">>)>>,
            <<<<"T", "a", "i", "l", "l", "e", " ", "(", "c", "m", ")">>, get(<<"T", "a", "i", "l", "l", "e", " ", "(", "c", "m", ")">>)>>,
            <<<<"P", "o", "i", "d", "s", " ", "(", "k", "g", ")">>, get(<<"P", "o", "i", "d", "s", " ", "(", "k", "g", ")">>)>>,
            <<<<"C", "o", "u", "l", "e", "u", "r", " ", "d", "e", "s", " ", "y", "e", "u", "x">>, get(<<"C", "o", "u", "l", "e", "u", "r", " ", "d", "e", "s", " ", "y", "e", "u", "x">>)>>,
            <<<<"C", "o", "u", "l", "e", "u", "r", " ", "d", "e", "s", " ", "c", "h", "e", "v", "e", "u", "x">>, get(<<"C", "o", "u", "l", "e", "u", "r", " ", "d", "e", "s", " ", "c", "h", "e", "v", "e", "u", "x">>)>>,
            <<<<"L", "a", "n", "g", "u", "e", "s">>, get(<<"L", "a", "n", "g", "u", "e", "s">>)>>,
            <<<<"A", "l", "i", "a", "s">>, get(<<"A", "l", "i", "a", "s">>)>>,
            <<<<"I", "n", "f", "r", "a", "c", "t", "i", "o", "n", "s">>, self.infractions>> >>
    IN  Append(base, <<<<"I", "d", "e", "n", "t", "i", "f", "i", "c", "a", "t", "i", "o", "n", " ", "-", " ", "a", "u", "t", "r", "e", "s">>,
                       Truncate(join(<<";", " ">>, Extras(self.fields, base)))>>)

\* The list base_fields of write_csv.
base_fields == <<
    <<"U", "R", "L">>, <<"N", "o", "m">>, <<"P", "r", "e_acute", "n", "o", "m">>, <<"S", "e", "x", "e">>, <<"D", "a", "t", "e", " ", "d", "e", " ", "n", "a", "i", "s", "s", "a", "n", "c", "e">>, <<"A_CIRC", "g", "e">>,
    <<"N", "a", "t", "i", "o", "n", "a", "l", "i", "t", "e_acute">>, <<"L", "i", "e", "u", " ", "d", "e", " ", "n", "a", "i", "s", "s", "a", "n", "c", "e">>, <<"P", "a", "y", "s", " ", "d", "e", " ", "n", "a", "i", "s", "s", "a", "n", "c", "e">>, <<"T", "a", "i", "l", "l", "e", " ", "(", "c", "m", ")">>,
    <<"P", "o", "i", "d", "s", " ", "(", "k", "g", ")">>, <<"C", "o", "u", "l", "e", "u", "r", " ", "d", "e", "s", " ", "y", "e", "u", "x">>, <<"C", "o", "u", "l", "e", "u", "r", " ", "d", "e", "s", " ", "c", "h", "e", "v", "e", "u", "x">>, <<"L", "a", "n", "g", "u", "e", "s">>,
    <<"A", "l", "i", "a", "s">>, <<"I", "n", "f", "r", "a", "c", "t", "i", "o", "n", "s">>, <<"I", "d", "e", "n", "t", "i", "f", "i", "c", "a", "t", "i", "o", "n", " ", "-", " ", "a", "u", "t", "r", "e", "s">> >>

\* x in xs, for a list xs
InList(x, xs) == \E i \in 1..Len(xs) : xs[i] = x

RECURSIVE ExtraKeys(_, _)
\* The list extra_keys of write_csv: the keys of the rows' items that are
\* not in base_fields, each once, in order; `found` holds those met so far.
ExtraKeys(items, found) ==
    IF items = <<>> THEN found
    ELSE LET k == Head(items)[1]
         IN  ExtraKeys(Tail(items),
                       IF ~InList(k, base_fields) /\ ~InList(k, found)
                       THEN Append(found, k) ELSE found)

\* The --output file before main writes it.
NotWritten == [written |-> FALSE, header |-> <<>>, records |-> <<>>]

\* What write_csv leaves in the output file `path`: what it held when there
\* are no rows, else the header and one record per row.
write_csv(rs, path) ==
    IF rs = <<>> THEN path
    ELSE LET fieldnames == base_fields \o ExtraKeys(Concat(rs), <<>>)
         IN  [written |-> TRUE,
              header |-> fieldnames,
              records |-> [i \in 1..Len(rs) |->
                              [f \in 1..Len(fieldnames) |-> DictGet(rs[i], fieldnames[f])]]]

(***************************************************************************)
(* Command line (src/main.py, read_urls_file and main).                    *)
(***************************************************************************)
\* s.startswith(prefix)
StartsWith(text, prefix) ==
    Len(text) >= Len(prefix) /\ SubSeq(text, 1, Len(prefix)) = prefix

RECURSIVE read_urls_file(_)
\* read_urls_file, from the lines of the file
read_urls_file(lines) ==
    IF lines = <<>> THEN <<>>
    ELSE LET url == strip(Head(lines))
         IN  (IF url = <<>> \/ StartsWith(url, <<"#">>) THEN <<>> ELSE <<url>>)
                 \o read_urls_file(Tail(lines))

\* The lines an --urls-file is made of.
FileLines == {<<"u", "1">>, <<" ", "u", "2">>, <<>>, <<"#", " ", "u", "3">>}

\* os.path.isfile(args.urls_file) is False
NoFile == [isfile |-> FALSE, lines |-> <<>>]

\* No file, or a file of at most n lines.
UrlFiles(n) ==
    {NoFile} \cup {[isfile |-> TRUE, lines |-> Concat([i \in 1..Len(ls) |-> <<ls[i]>>])] :
                      ls \in SeqsUpTo(FileLines, n)}

\* A notice page with both sections, and a page with no heading at all.
FullPage == <<
    RootNode,
    [tag |-> "section", text |-> <<>>, parent |-> 1],
    [tag |-> "h1", text |-> <<"I", "d", "e", "n", "t", "i", "f", "i", "c", "a", "t", "i", "o", "n">>, parent |-> 2],
    [tag |-> "p", text |-> <<"D", "a", "t", "e", " ", "d", "e", " ", "n", "a", "i", "s", "s", "a", "n", "c", "e", ":", " ", "1", "9", "8", "0">>, parent |-> 2],
    [tag |-> "p", text |-> <<"S", "i", "g", "n", "e", "s", ":", " ", "c", "i", "c", "a", "t", "r", "i", "c", "e">>, parent |-> 2],
    [tag |-> "div", text |-> <<>>, parent |-> 1],
    [tag |-> "h3", text |-> <<"C", "h", "a", "r", "g", "e", "s">>, parent |-> 6],
    [tag |-> "li", text |-> <<"v", "o", "l">>, parent |-> 6] >>

BarePage == <<
    RootNode,
    [tag |-> "p", text |-> <<"N", "o", "m", ":", " ", "D", "u", "p", "o", "n", "t">>, parent |-> 1] >>

\* What fetch_soup may return for a URL: None, or the parsed page.
FetchResults == {<<>>, FullPage, BarePage}

\* The status the interpreter ends with on an uncaught KeyboardInterrupt.
KeyboardInterruptStatus == 130

MainIdle ==
    /\ main_pc = "idle" /\ urls_file = NoFile /\ urls = <<>> /\ next_url = 0
    /\ rows = <<>> /\ processed = 0 /\ exit_code = -1 /\ csv_file = NotWritten
    /\ attempts = <<>>

MainInit ==
    /\ main_pc = "start"
    /\ urls_file \in UrlFiles(MaxLines)
    /\ urls = <<>> /\ next_url = 0
    /\ rows = <<>> /\ processed = 0 /\ exit_code = -1 /\ csv_file = NotWritten
    /\ attempts = <<>>

\* main up to its loop: the file test and read_urls_file   (src/main.py:498-510)
ReadUrls ==
    /\ main_pc = "start"
    /\ IF ~urls_file.isfile
       THEN /\ main_pc' = "done" /\ exit_code' = 1
            /\ UNCHANGED <<urls, next_url>>
       ELSE /\ urls' = read_urls_file(urls_file.lines)
            /\ IF urls' = <<>>
               THEN main_pc' = "done" /\ exit_code' = 1 /\ UNCHANGED next_url
               ELSE main_pc' = "loop" /\ next_url' = 1 /\ UNCHANGED exit_code
    /\ UNCHANGED <<urls_file, rows, processed, csv_file, attempts>>
    /\ UNCHANGED <<keyVars, ageVars, identVars, scrapeVars, current_year, laterVars>>

\* A slip in the loop: a URL whose fetch fails ends the loop.
ProcessUrl_stops_at_failure ==
    /\ main_pc = "loop"
    /\ next_url <= Len(urls)
    /\ \E page \in FetchResults :
          LET url == urls[next_url]
              n == scrape_notice(url, page)
          IN  /\ attempts' = Append(attempts, <<url, page>>)
              /\ IF n # None
                 THEN /\ rows' = Append(rows, to_row(n))
                      /\ processed' = processed + 1
                      /\ next_url' = next_url + 1
                 ELSE /\ UNCHANGED <<rows, processed>>
                      /\ next_url' = Len(urls) + 1
    /\ UNCHANGED <<main_pc, urls_file, urls, exit_code, csv_file>>
    /\ UNCHANGED <<keyVars, ageVars, identVars, scrapeVars, current_year, laterVars>>

\* A slip in scrape_notice: the charges of the notice before are kept when
\* the page has none.
ProcessUrl_keeps_last_infractions ==
    /\ main_pc = "loop"
    /\ next_url <= Len(urls)
    /\ \E page \in FetchResults :
          LET url == urls[next_url]
              n == scrape_notice(url, page)
              row == to_row(n)
              last == IF rows = <<>> THEN <<>>
                      ELSE DictGet(rows[Len(rows)], <<"I", "n", "f", "r", "a", "c", "t", "i", "o", "n", "s">>)
          IN  /\ attempts' = Append(attempts, <<url, page>>)
              /\ IF n # None
                 THEN /\ rows' = Append(rows,
                                   IF DictGet(row, <<"I", "n", "f", "r", "a", "c", "t", "i", "o", "n", "s">>) = <<>>
                                   THEN DictSet(row, <<"I", "n", "f", "r", "a", "c", "t", "i", "o", "n", "s">>, last)
                                   ELSE row)
                      /\ processed' = processed + 1
                 ELSE UNCHANGED <<rows, processed>>
    /\ next_url' = next_url + 1
    /\ UNCHANGED <<main_pc, urls_file, urls, exit_code, csv_file>>
    /\ UNCHANGED <<keyVars, ageVars, identVars, scrapeVars, current_year, laterVars>>

\* One iteration of `for url in urls`   (src/main.py:511-519)
ProcessUrl ==
    /\ main_pc = "loop"
    /\ next_url <= Len(urls)
    /\ \E page \in FetchResults :
          LET url == urls[next_url]
              n == scrape_notice(url, page)
          IN  /\ attempts' = Append(attempts, <<url, page>>)
              /\ IF n # None
                 THEN /\ rows' = Append(rows, to_row(n))
                      /\ processed' = processed + 1
                 ELSE UNCHANGED <<rows, processed>>
    /\ next_url' = next_url + 1
    /\ UNCHANGED <<main_pc, urls_file, urls, exit_code, csv_file>>
    /\ UNCHANGED <<keyVars, ageVars, identVars, scrapeVars, current_year, laterVars>>

\* A slip after the loop: the file is written and 0 returned whatever the rows.
WriteAndReturn_without_rows_test ==
    /\ main_pc = "loop"
    /\ next_url > Len(urls)
    /\ csv_file' = [written |-> TRUE, header |-> base_fields, records |-> <<>>]
    /\ exit_code' = 0
    /\ main_pc' = "done"
    /\ UNCHANGED <<urls_file, urls, next_url, rows, processed, attempts>>
    /\ UNCHANGED <<keyVars, ageVars, identVars, scrapeVars, current_year, laterVars>>

\* main after its loop   (src/main.py:521-527)
WriteAndReturn ==
    /\ main_pc = "loop"
    /\ next_url > Len(urls)
    /\ IF rows = <<>>
       THEN exit_code' = 1 /\ UNCHANGED csv_file
       ELSE csv_file' = write_csv(rows, csv_file) /\ exit_code' = 0
    /\ main_pc' = "done"
    /\ UNCHANGED <<urls_file, urls, next_url, rows, processed, attempts>>
    /\ UNCHANGED <<keyVars, ageVars, identVars, scrapeVars, current_year, laterVars>>

\* KeyboardInterrupt raised in the loop (in a request or in time.sleep): main
\* has no handler, the exception leaves main and the interpreter ends.
KeyboardInterrupt ==
    /\ main_pc = "loop"
    /\ main_pc' = "done"
    /\ exit_code' = KeyboardInterruptStatus
    /\ UNCHANGED <<urls_file, urls, next_url, rows, processed, csv_file, attempts>>
    /\ UNCHANGED <<keyVars, ageVars, identVars, scrapeVars, current_year, laterVars>>

(***************************************************************************)
(* The extractors on one section.  The section is parsed element by        *)
(* element like a page; it begins with a <dl>, a <table> or a <ul>, and    *)
(* the elements that follow are the ones that go with it.                  *)
(***************************************************************************)
LongText == [i \in 1..501 |-> "x"]

FirstKinds == {
    [tag |-> "dl", text |-> <<>>],
    [tag |-> "table", text |-> <<>>],
    [tag |-> "ul", text |-> <<>>] }

SectionKinds(first) ==
    CASE first = "dl" -> {
            [tag |-> "dt", text |-> <<"N", "o", "m">>],
            [tag |-> "dt", text |-> <<"D", "a", "t", "e", " ", "d", "e", " ", "n", "a", "i", "s", "s", "a", "n", "c", "e">>],
            [tag |-> "dt", text |-> <<>>],
            [tag |-> "dd", text |-> <<"D", "u", "p", "o", "n", "t">>],
            [tag |-> "dd", text |-> <<"1", "9", "8", "0">>],
            [tag |-> "dd", text |-> <<>>] }
      [] first = "table" -> {
            [tag |-> "table", text |-> <<>>],
            [tag |-> "tr", text |-> <<>>],
            [tag |-> "td", text |-> <<"N", "a", "t", "i", "o", "n", "a", "l", "i", "t", "e_acute">>],
            [tag |-> "td", text |-> <<"F", "r", "a", "n", "c_cedilla", "a", "i", "s", "e">>],
            [tag |-> "th", text |-> <<"B", "e", "l", "g", "e">>],
            [tag |-> "td", text |-> <<>>] }
      [] first = "ul" -> {
            [tag |-> "li", text |-> <<"N", "o", "m", ":", " ", "D", "u", "p", "o", "n", "t">>],
            [tag |-> "li", text |-> <<>>],
            [tag |-> "li", text |-> LongText],
            [tag |-> "p", text |-> <<":", " ", "D", "u", "p", "o", "n", "t">>],
            [tag |-> "p", text |-> <<"a", ":", " ", "b", ":", " ", "c">>] }

SectionContainerTags == {"[document]", "dl", "table", "tr", "ul"}

\* The elements of doc that are still open when its last one has been read.
OpenElements(doc) ==
    {n \in 1..Len(doc) :
        /\ doc[n].tag \in SectionContainerTags
        /\ n = Len(doc) \/ n \in Ancestors(doc, Len(doc))}

\* What a function that has not been called has returned.
NotCalled == [called |-> FALSE]

ExtractIdle ==
    /\ extract_pc = "idle" /\ section_doc = <<>>
    /\ dl_pairs = NotCalled /\ table_pairs = NotCalled /\ item_pairs = NotCalled
    /\ section_fields = NotCalled /\ charges = NotCalled

ExtractInit ==
    /\ extract_pc = "parse" /\ section_doc = <<RootNode>>
    /\ dl_pairs = NotCalled /\ table_pairs = NotCalled /\ item_pairs = NotCalled
    /\ section_fields = NotCalled /\ charges = NotCalled

\* html.parser reads one more element of the section   (src/main.py:135)
ParseSectionElement ==
    /\ extract_pc = "parse"
    /\ Len(section_doc) <= MaxNodes + 1
    /\ \E kind \in (IF Len(section_doc) = 1 THEN FirstKinds
                    ELSE SectionKinds(section_doc[2].tag)),
          p \in OpenElements(section_doc) :
          section_doc' = Append(section_doc, [tag |-> kind.tag, text |-> kind.text, parent |-> p])
    /\ UNCHANGED <<extract_pc, dl_pairs, table_pairs, item_pairs, section_fields, charges>>
    /\ UNCHANGED <<keyVars, ageVars, identVars, scrapeVars, mainVars, current_year, rowVars, fetchVars, pagesVars>>

\* extract_identification(container)   (src/main.py:276-294)
ExtractIdentification ==
    /\ extract_pc = "parse"
    /\ dl_pairs' = extract_pairs_from_dl(section_doc, 1)
    /\ table_pairs' = extract_pairs_from_tables(section_doc, 1)
    /\ item_pairs' = extract_pairs_from_list_items(section_doc, 1)
    /\ section_fields' = fold_pairs(<<>>, dl_pairs' \o table_pairs' \o item_pairs')
    /\ extract_pc' = "identification"
    /\ UNCHANGED <<section_doc, charges>>
    /\ UNCHANGED <<keyVars, ageVars, identVars, scrapeVars, mainVars, current_year, rowVars, fetchVars, pagesVars>>

\* extract_qualification(container)   (src/main.py:297-311)
ExtractQualification ==
    /\ extract_pc = "parse"
    /\ charges' = extract_qualification(section_doc, 1)
    /\ extract_pc' = "qualification"
    /\ UNCHANGED <<section_doc, dl_pairs, table_pairs, item_pairs, section_fields>>
    /\ UNCHANGED <<keyVars, ageVars, identVars, scrapeVars, mainVars, current_year, rowVars, fetchVars, pagesVars>>


(***************************************************************************)
(* One call of Notice.to_row, on a notice whose fields extract_identification *)
(* made from at most MaxPairs pairs.                                       *)
(***************************************************************************)
RowLabels == {<<"U", "R", "L">>, <<"I", "n", "f", "r", "a", "c", "t", "i", "o", "n", "s">>, <<"S", "i", "g", "n", "e", "s">>, <<"n", "o", "m">>}

RowValues == {<<"x">>, <<"y">>}

RowInfractions == {<<>>, <<"v", "o", "l">>}

RowIdle ==
    row_pc = "idle" /\ row_pairs = <<>> /\ row_self = None /\ row_ret = <<>>

RowInit ==
    /\ row_pc = "call"
    /\ row_pairs \in SeqsUpTo(RowLabels \X RowValues, MaxPairs)
    /\ \E infractions \in RowInfractions :
          row_self = Notice(<<"u", "1">>, fold_pairs(<<>>, row_pairs), infractions)
    /\ row_ret = <<>>

\* notice.to_row()   (src/main.py:342-377)
ToRow ==
    /\ row_pc = "call"
    /\ row_ret' = to_row(row_self)
    /\ row_pc' = "return"
    /\ UNCHANGED <<row_pairs, row_self>>
    /\ UNCHANGED <<keyVars, ageVars, identVars, scrapeVars, mainVars, current_year, extractVars, fetchVars, pagesVars>>


(***************************************************************************)
(* The JSON scraper's fetch collaborator (src/interpol_scraper_bs4.py,     *)
(* create_session, get_session, fetch_page).  Header names and values are  *)
(* plain strings; a headers dict is a sequence of <<name, value>>.         *)
(***************************************************************************)
\* os.getenv(name) or default
getenv_or(env, name, default) == IF env[name] # "" THEN env[name] ELSE default

default_headers(env) == <<
    <<"accept", "application/json, text/plain, */*">>,
    <<"accept-language", "fr-FR,fr;q=0.9,en-US;q=0.8,en;q=0.7">>,
    <<"origin", "https://www.interpol.int">>,
    <<"referer", getenv_or(env, "SCRAPER_REFERER", "https://www.interpol.int/")>>,
    <<"user-agent", getenv_or(env, "SCRAPER_UA", "Mozilla/5.0 (X11; Linux x86_64) Chrome/120.0.0.0")>> >>

\* The headers of the session create_session returns.
create_session == <<
    <<"accept", "*/*">>,
    <<"accept-language", "fr-FR,fr;q=0.9,en-US;q=0.8,en;q=0.7">>,
    <<"origin", "https://www.interpol.int">>,
    <<"priority", "u=1, i">>,
    <<"referer", "https://www.interpol.int/">>,
    <<"sec-ch-ua", "\"Not;A=Brand\";v=\"99\"">>,
    <<"sec-ch-ua-mobile", "?0">>,
    <<"sec-ch-ua-platform", "\"macOS\"">>,
    <<"sec-fetch-dest", "empty">>,
    <<"sec-fetch-mode", "cors">>,
    <<"sec-fetch-site", "same-site">>,
    <<"user-agent", "Mozilla/5.0 (Macintosh; Intel Mac OS X 10_15_7) Chrome/139.0.0.0">> >>

\* The value of _session before get_session has been called.
NoSession == [none |-> TRUE]

get_session(s) == IF s = NoSession THEN create_session ELSE s

RECURSIVE update(_, _)
\* headers.update(items)
update(headers, items) ==
    IF items = <<>> THEN headers
    ELSE update(DictSet(headers, Head(items)[1], Head(items)[2]), Tail(items))

\* The headers fetch_page takes out of the session on a 403.
SimplifiedAway == {"x-requested-with", "sec-ch-ua", "sec-ch-ua-mobile",
                   "sec-ch-ua-platform", "sec-fetch-dest", "sec-fetch-mode",
                   "sec-fetch-site", "priority"}

\* A slip in the fallback: the headers are taken out, the default ones are
\* not put in.
simplify_headers_without_defaults(headers, env) ==
    SelectSeq(headers, LAMBDA h : h[1] \notin SimplifiedAway)

\* Lines 116-120 of fetch_page, on the headers of the session.
simplify_headers(headers, env) ==
    update(SelectSeq(headers, LAMBDA h : h[1] \notin SimplifiedAway),
           default_headers(env))

\* What sess.get may do: raise (no answer, timeout), or return a response
\* with a status and a body that is JSON or not.
Outcomes ==
    {[raised |-> TRUE, status |-> 0, json |-> FALSE]}
        \cup {[raised |-> FALSE, status |-> st, json |-> js] :
                 st \in {200, 403, 404, 500}, js \in BOOLEAN}

\* response.raise_for_status() raises
raise_for_status(status) == status >= 400 /\ status < 600

\* Lines 127-148 of fetch_page: what is returned for a response that is
\* not a 403, or for an exception of sess.get.
fetch_page_result(page, o) ==
    IF o.raised THEN None
    ELSE IF o.status = 404 THEN None
    ELSE IF raise_for_status(o.status) THEN None
    ELSE IF ~o.json THEN None
    ELSE [data |-> page, request_url |-> page]

Environments == [{"SCRAPER_UA", "SCRAPER_REFERER"} -> {"", "set"}]

FetchIdle ==
    /\ environ = <<>> /\ session = NoSession /\ fetch_pc = "idle"
    /\ fetch_arg = 0 /\ fetch_ret = None /\ sent = <<>> /\ calls = 0

FetchInit ==
    /\ environ \in Environments /\ session = NoSession /\ fetch_pc = "ready"
    /\ fetch_arg = 0 /\ fetch_ret = None /\ sent = <<>> /\ calls = 0

\* fetch_page(page) up to its return or to the second sess.get
\* (src/interpol_scraper_bs4.py:87-148)
FetchPage ==
    /\ fetch_pc = "ready"
    /\ calls < MaxCalls
    /\ \E page \in 1..2, o \in Outcomes :
          LET sess == get_session(session)
          IN  /\ fetch_arg' = page
              /\ sent' = Append(sent, [call |-> calls + 1, page |-> page,
                                       headers |-> sess, outcome |-> o])
              /\ IF ~o.raised /\ o.status = 403
                 THEN /\ session' = simplify_headers(sess, environ)
                      /\ fetch_pc' = "retry"
                      /\ UNCHANGED <<fetch_ret, calls>>
                 ELSE /\ session' = sess
                      /\ fetch_ret' = fetch_page_result(page, o)
                      /\ calls' = calls + 1
                      /\ UNCHANGED fetch_pc
    /\ UNCHANGED environ
    /\ UNCHANGED <<keyVars, ageVars, identVars, scrapeVars, mainVars, current_year, extractVars, rowVars, pagesVars>>

\* fetch_page from its second sess.get on   (src/interpol_scraper_bs4.py:121-148)
FetchPageRetry ==
    /\ fetch_pc = "retry"
    /\ \E o \in Outcomes :
          /\ sent' = Append(sent, [call |-> calls + 1, page |-> fetch_arg,
                                   headers |-> session, outcome |-> o])
          /\ fetch_ret' = IF ~o.raised /\ o.status = 403 THEN None
                          ELSE fetch_page_result(fetch_arg, o)
    /\ calls' = calls + 1
    /\ fetch_pc' = "ready"
    /\ UNCHANGED <<environ, session, fetch_arg>>
    /\ UNCHANGED <<keyVars, ageVars, identVars, scrapeVars, mainVars, current_year, extractVars, rowVars, pagesVars>>


(***************************************************************************)
(* The JSON scraper's pagination loop (src/interpol_scraper_bs4.py,        *)
(* scrape_all_notices_bs4).  fetch_page is taken by what it returns: None, *)
(* or the page's data.                                                     *)
(***************************************************************************)
RESULTS_PER_PAGE == 160

\* clean_text_with_bs4, on a text without markup: runs of whitespace become
\* one space, and the ends are stripped
clean_text_with_bs4(text) == join(<<" ">>, split(text))

\* parse_notice_with_bs4: the two fields the loop tests
parse_notice_with_bs4(n) ==
    [Nom |-> clean_text_with_bs4(clean_text_with_bs4(n.name)),
     Prenom |-> clean_text_with_bs4(clean_text_with_bs4(n.forename))]

RECURSIVE PeopleOf(_)
\* The persons the loop keeps of the notices of one page   (lines 365-392)
PeopleOf(notices) ==
    IF notices = <<>> THEN <<>>
    ELSE LET person == parse_notice_with_bs4(Head(notices))
         IN  (IF person.Nom # <<>> \/ person.Prenom # <<>> THEN <<person>> ELSE <<>>)
                 \o PeopleOf(Tail(notices))

\* The lists of notices a page may hold.
NoticeLists == {
    <<>>,
    << [name |-> <<"D", "u", "p", "o", "n", "t">>, forename |-> <<>>] >>,
    << [name |-> <<" ">>, forename |-> <<>>], [name |-> <<>>, forename |-> <<" ", "J", "e", "a", "n", " ">>] >> }

\* The totals the API may announce: up to n full pages, and one notice more.
Totals(n) ==
    {0, 1} \cup {RESULTS_PER_PAGE * k : k \in 1..n}
           \cup {RESULTS_PER_PAGE * k + 1 : k \in 1..n}

\* The argument max_pages: None, or a number of pages.
NoMaxPages == [given |-> FALSE, value |-> 0]

MaxPagesArgs(n) == {NoMaxPages} \cup {[given |-> TRUE, value |-> v] : v \in 0..n}

\* Lines 331-337: the number of pages of the loop.
TotalPages(total, maxp) ==
    LET by_total == (total \div RESULTS_PER_PAGE)
                       + (IF total % RESULTS_PER_PAGE # 0 THEN 1 ELSE 0)
        pages == IF by_total = 0 /\ total # 0 THEN 1 ELSE by_total
    IN  IF maxp.given /\ maxp.value # 0 THEN Min(pages, maxp.value) ELSE pages

PagesIdle ==
    /\ pages_pc = "idle" /\ max_pages = NoMaxPages /\ first_page = None
    /\ total_pages = 0 /\ page_no = 0 /\ all_people = <<>> /\ fetched = <<>>
    /\ people_ret = <<>>

PagesInit ==
    /\ pages_pc = "start" /\ max_pages \in MaxPagesArgs(MaxFullPages)
    /\ first_page = None
    /\ total_pages = 0 /\ page_no = 0 /\ all_people = <<>> /\ fetched = <<>>
    /\ people_ret = <<>>

\* scrape_all_notices_bs4 up to its loop   (lines 321-345)
FetchFirstPage ==
    /\ pages_pc = "start"
    /\ \E response \in {None} \cup {[total |-> t, notices |-> ns] :
                                   t \in Totals(MaxFullPages), ns \in NoticeLists} :
          /\ first_page' = response
          /\ fetched' = Append(fetched, 1)
          /\ IF response = None
             THEN /\ pages_pc' = "done" /\ people_ret' = <<>>
                  /\ UNCHANGED <<total_pages, page_no>>
             ELSE /\ total_pages' = TotalPages(response.total, max_pages)
                  /\ IF total_pages' = 0
                     THEN pages_pc' = "done" /\ people_ret' = <<>> /\ UNCHANGED page_no
                     ELSE pages_pc' = "loop" /\ page_no' = 1 /\ UNCHANGED people_ret
    /\ UNCHANGED <<max_pages, all_people>>
    /\ UNCHANGED <<keyVars, ageVars, identVars, scrapeVars, mainVars, current_year, extractVars, rowVars, fetchVars>>

\* One iteration of `for page in range(1, total_pages + 1)`   (lines 348-394)
ProcessPage ==
    /\ pages_pc = "loop"
    /\ page_no <= total_pages
    /\ \E response \in (IF page_no = 1 THEN {first_page}
                    ELSE {None} \cup {[total |-> first_page.total, notices |-> ns] :
                                         ns \in NoticeLists}) :
          /\ fetched' = IF page_no = 1 THEN fetched ELSE Append(fetched, page_no)
          /\ IF response = None
             THEN /\ pages_pc' = "done" /\ people_ret' = all_people
                  /\ UNCHANGED <<page_no, all_people>>
             ELSE /\ all_people' = all_people \o PeopleOf(response.notices)
                  /\ page_no' = page_no + 1
                  /\ UNCHANGED <<pages_pc, people_ret>>
    /\ UNCHANGED <<max_pages, first_page, total_pages>>
    /\ UNCHANGED <<keyVars, ageVars, identVars, scrapeVars, mainVars, current_year, extractVars, rowVars, fetchVars>>

\* scrape_all_notices_bs4 after its loop   (lines 396-397)
ReturnPeople ==
    /\ pages_pc = "loop"
    /\ page_no > total_pages
    /\ people_ret' = all_people
    /\ pages_pc' = "done"
    /\ UNCHANGED <<max_pages, first_page, total_pages, page_no, all_people, fetched>>
    /\ UNCHANGED <<keyVars, ageVars, identVars, scrapeVars, mainVars, current_year, extractVars, rowVars, fetchVars>>

LaterIdle == ExtractIdle /\ RowIdle /\ FetchIdle /\ PagesIdle

(***************************************************************************)
(* Specifications.                                                         *)
(***************************************************************************)
\* main of src/main.py, interruptions included.
Init ==
    /\ MainInit /\ KeyIdle /\ AgeIdle /\ IdentIdle /\ ScrapeIdle /\ LaterIdle
    /\ current_year \in ClockYears

Next == ReadUrls \/ ProcessUrl \/ WriteAndReturn \/ KeyboardInterrupt

Spec == Init /\ [][Next]_vars

\* One call of normalize_identification_key.
InitKey ==
    KeyInit /\ AgeIdle /\ IdentIdle /\ ScrapeIdle /\ MainIdle /\ current_year = 0 /\ LaterIdle

SpecKey == InitKey /\ [][NormalizeKey]_vars

\* One call of compute_age_from_date_text.
InitAge ==
    /\ AgeInit /\ KeyIdle /\ IdentIdle /\ ScrapeIdle /\ MainIdle /\ LaterIdle
    /\ current_year \in ClockYears

SpecAge == InitAge /\ [][ComputeAge]_vars

\* The loop of extract_identification.
InitIdent ==
    IdentInit /\ KeyIdle /\ AgeIdle /\ ScrapeIdle /\ MainIdle /\ current_year = 0 /\ LaterIdle

SpecIdent == InitIdent /\ [][FoldPair]_vars

\* One call of scrape_notice, from the parsing of the page on.
InitScrape ==
    ScrapeInit /\ KeyIdle /\ AgeIdle /\ IdentIdle /\ MainIdle /\ current_year = 0 /\ LaterIdle

NextScrape == ParseElement \/ ScrapeNoticeNoSoup \/ ScrapeNotice

SpecScrape == InitScrape /\ [][NextScrape]_vars

\* The extractors on one section, from the parsing of the section on.
InitExtract ==
    /\ ExtractInit /\ KeyIdle /\ AgeIdle /\ IdentIdle /\ ScrapeIdle /\ MainIdle
    /\ RowIdle /\ FetchIdle /\ PagesIdle /\ current_year = 0

NextExtract == ParseSectionElement \/ ExtractIdentification \/ ExtractQualification

SpecExtract == InitExtract /\ [][NextExtract]_vars

\* One call of Notice.to_row.
InitRow ==
    /\ RowInit /\ KeyIdle /\ AgeIdle /\ IdentIdle /\ ScrapeIdle /\ MainIdle
    /\ ExtractIdle /\ FetchIdle /\ PagesIdle /\ current_year \in ClockYears

SpecRow == InitRow /\ [][ToRow]_vars

\* Calls of fetch_page on the global session.
InitFetch ==
    /\ FetchInit /\ KeyIdle /\ AgeIdle /\ IdentIdle /\ ScrapeIdle /\ MainIdle
    /\ ExtractIdle /\ RowIdle /\ PagesIdle /\ current_year = 0

NextFetch == FetchPage \/ FetchPageRetry

SpecFetch == InitFetch /\ [][NextFetch]_vars

\* One call of scrape_all_notices_bs4.
InitPages ==
    /\ PagesInit /\ KeyIdle /\ AgeIdle /\ IdentIdle /\ ScrapeIdle /\ MainIdle
    /\ ExtractIdle /\ RowIdle /\ FetchIdle /\ current_year = 0

NextPages == FetchFirstPage \/ ProcessPage \/ ReturnPeople

SpecPages == InitPages /\ [][NextPages]_vars

(***************************************************************************)
(* Claims.                                                                 *)
(***************************************************************************)
\* The column a folded pair goes to, and its cleaned value.
PairKey(pair) == normalize_identification_key(pair[1])

PairVal(pair) == clean_text(pair[2])

RECURSIVE DistinctValues(_, _, _)
\* The distinct non-empty cleaned values of the pairs whose label normalized
\* to key, in first-seen order; `seen` holds those met so far.
DistinctValues(key, pairs, seen) ==
    IF pairs = <<>> THEN seen
    ELSE LET val == PairVal(Head(pairs))
             new == /\ PairKey(Head(pairs)) = key
                    /\ val # <<>>
                    /\ \A i \in 1..Len(seen) : seen[i] # val
         IN  DistinctValues(key, Tail(pairs), IF new THEN Append(seen, val) ELSE seen)

\* C1: after extract_identification has folded any sequence of pairs, every
\* stored field value is the "; "-join of all distinct non-empty cleaned
\* values whose label normalized to that field, in first-seen order, and no
\* value stored earlier is lost when a later pair for the field arrives.
C1_StoredValueKeepsEveryValue ==
    \A i \in 1..Len(ident_pairs) :
        LET key == PairKey(ident_pairs[i])
            val == PairVal(ident_pairs[i])
        IN  val # <<>> =>
                /\ DictHas(data, key)
                /\ Contains(val, DictGet(data, key))
                /\ DictGet(data, key) = join(<<";", " ">>, DistinctValues(key, ident_pairs, <<>>))

\* The records write_csv makes of a list of rows.
RecordsOf(rs) == write_csv(rs, NotWritten).records

\* C2: when the run is interrupted (KeyboardInterrupt) after at least one row
\* has been collected, the rows collected so far are written to the output
\* file.
C2_InterruptionKeepsRows ==
    (main_pc = "done" /\ exit_code = KeyboardInterruptStatus /\ rows # <<>>)
        => csv_file.written /\ csv_file.records = RecordsOf(rows)

\* The URLs requested so far, and the requests that returned a page.
AttemptedUrls == [i \in 1..Len(attempts) |-> attempts[i][1]]

Fetched == SelectSeq(attempts, LAMBDA a : a[2] # <<>>)

\* main ended by itself, after its loop.
LoopCompleted ==
    main_pc = "done" /\ exit_code # KeyboardInterruptStatus /\ urls # <<>>

\* C3: the loop of main attempts every URL of the list once, in list order;
\* a URL whose fetch returns None is skipped and the loop goes on with the
\* next one, so the rows are the rows of the URLs whose fetch succeeded, in
\* input order, and the count reported is the number of rows.
C3_EveryUrlOnceInOrder ==
    /\ Len(attempts) <= Len(urls)
    /\ AttemptedUrls = SubSeq(urls, 1, Len(attempts))
    /\ main_pc = "loop" => next_url = Len(attempts) + 1
    /\ LoopCompleted => Len(attempts) = Len(urls)
    /\ rows = [i \in 1..Len(Fetched) |->
                  to_row(scrape_notice(Fetched[i][1], Fetched[i][2]))]
    /\ \A i \in 1..Len(rows) : DictGet(rows[i], <<"U", "R", "L">>) = Fetched[i][1]
    /\ processed = Len(rows)

\* A failed URL was followed by one that gave a row, and main ended.
C3_Witness ==
    /\ LoopCompleted
    /\ Len(attempts) >= 3
    /\ attempts[1][2] # <<>> /\ attempts[2][2] = <<>> /\ attempts[3][2] # <<>>
    /\ Len(rows) = 2

\* C4: when no row is produced (every URL failed, or the list is empty or
\* the file missing) main returns 1 and the CSV is never written; when at
\* least one row is produced main writes the CSV and returns 0, even if some
\* URLs were skipped.  Runs ended by KeyboardInterrupt return nothing.
C4_NoRowsIsFailure ==
    /\ csv_file.written => rows # <<>> /\ main_pc = "done"
    /\ (main_pc = "done" /\ exit_code # KeyboardInterruptStatus) =>
           IF rows = <<>>
           THEN exit_code = 1 /\ ~csv_file.written
           ELSE /\ exit_code = 0
                /\ csv_file.written
                /\ csv_file.records = RecordsOf(rows)

\* Every URL of a list of two failed, and main ended.
C4_Witness ==
    /\ main_pc = "done" /\ exit_code = 1
    /\ Len(attempts) = 2
    /\ rows = <<>> /\ ~csv_file.written

\* The h1-h5 headings of a page whose cleaned text is not empty and matches
\* one of the keywords.
HeadingTags == <<"h1", "h2", "h3", "h4", "h5">>

MatchingHeadings(doc, keywords) ==
    {h \in 1..Len(doc) :
        /\ \E l \in 1..5 : doc[h].tag = HeadingTags[l]
        /\ LET title == NodeText(doc, h)
           IN  title # <<>> /\ contains_any(title, keywords)}

HeadingLevel(doc, h) == CHOOSE l \in 1..5 : doc[h].tag = HeadingTags[l]

\* The matching heading that comes first in the page.
EarliestHeading(doc, keywords) ==
    LET matching == MatchingHeadings(doc, keywords)
    IN  CHOOSE h \in matching : \A g \in matching : h <= g

\* The matching heading of the lowest level, and among those of that level
\* the one that comes first in the page.
OutermostHeading(doc, keywords) ==
    LET matching == MatchingHeadings(doc, keywords)
    IN  CHOOSE h \in matching :
            \A g \in matching :
                \/ HeadingLevel(doc, h) < HeadingLevel(doc, g)
                \/ HeadingLevel(doc, h) = HeadingLevel(doc, g) /\ h <= g

\* The two sections scrape_notice looks for, with what it found.
Searches ==
    << <<IDENTIFICATION_KEYWORDS, ident_container>>,
       <<QUALIFICATION_KEYWORDS, qualif_container>> >>

Scraped == scrape_pc = "return" /\ soup # <<>>

\* C5: find_section_by_heading returns None exactly when no h1-h5 heading
\* with non-empty text matches a keyword; for a fetched page with one or
\* both sections missing, scrape_notice still returns a record for the URL,
\* with no fields and/or an empty charges summary.
C5_MissingSectionStillYieldsRecord ==
    Scraped =>
        /\ \A i \in 1..2 :
               Searches[i][2] = 0 <=> MatchingHeadings(soup, Searches[i][1]) = {}
        /\ notice # None
        /\ notice.url = <<"u", "1">>
        /\ ident_container = 0 => notice.fields = <<>>
        /\ qualif_container = 0 => notice.infractions = <<>>

\* A page with the identification section and without the charges section.
C5_Witness ==
    /\ Scraped
    /\ ident_container # 0
    /\ qualif_container = 0
    /\ notice # None
    /\ notice.fields # <<>>
    /\ notice.infractions = <<>>

\* C6 as stated: the section is that of the matching heading that comes
\* first in the page, whatever its level.
C6_AnchorIsEarliestInDocument ==
    Scraped =>
        \A i \in 1..2 :
            MatchingHeadings(soup, Searches[i][1]) # {} =>
                Searches[i][2] =
                    SectionOfHeading(soup, EarliestHeading(soup, Searches[i][1]))

\* C6, amended: the section is that of the matching heading of the lowest
\* heading level (h1 before h2, ... before h5), and among the matching
\* headings of that level the one that comes first in the page.
C6_AnchorIsOutermostThenEarliest ==
    Scraped =>
        \A i \in 1..2 :
            MatchingHeadings(soup, Searches[i][1]) # {} =>
                Searches[i][2] =
                    SectionOfHeading(soup, OutermostHeading(soup, Searches[i][1]))

\* A matching <h1> below a matching <h3>, where the two give other sections.
C6_Witness ==
    /\ Scraped
    /\ \E h, g \in MatchingHeadings(soup, IDENTIFICATION_KEYWORDS) :
          /\ g < h
          /\ HeadingLevel(soup, h) < HeadingLevel(soup, g)
          /\ ident_container = SectionOfHeading(soup, h)
          /\ ident_container # SectionOfHeading(soup, g)

\* The candidate is there and its cleaned text is longer than the title's.
LongerThanTitle(doc, candidate, h) ==
    candidate # 0 /\ Len(NodeText(doc, candidate)) > Len(NodeText(doc, h))

\* C7: for the chosen heading the candidates parent, nearest <section>
\* ancestor, nearest <div> ancestor are tried in that order and the first
\* one there whose cleaned text is strictly longer than the title is
\* returned; if none is, the heading itself is returned, and no other
\* matching heading is tried.
C7_FirstLongerCandidateElseHeading ==
    Scraped =>
        \A i \in 1..2 :
            MatchingHeadings(soup, Searches[i][1]) # {} =>
                LET h == OutermostHeading(soup, Searches[i][1])
                    found == Searches[i][2]
                    parent == soup[h].parent
                    section == find_parent(soup, h, "section")
                    div == find_parent(soup, h, "div")
                    p1 == LongerThanTitle(soup, parent, h)
                    p2 == LongerThanTitle(soup, section, h)
                    p3 == LongerThanTitle(soup, div, h)
                IN  /\ p1 => found = parent
                    /\ ~p1 /\ p2 => found = section
                    /\ ~p1 /\ ~p2 /\ p3 => found = div
                    /\ ~p1 /\ ~p2 /\ ~p3 => found = h

\* A heading alone in a <header>, inside a <section> inside a <div>: the
\* parent is passed over, and the <section> is taken though the <div> is
\* longer than the title too.
C7_Witness ==
    /\ Scraped
    /\ MatchingHeadings(soup, IDENTIFICATION_KEYWORDS) # {}
    /\ LET h == OutermostHeading(soup, IDENTIFICATION_KEYWORDS)
           section == find_parent(soup, h, "section")
           div == find_parent(soup, h, "div")
       IN  /\ ~LongerThanTitle(soup, soup[h].parent, h)
           /\ LongerThanTitle(soup, section, h)
           /\ LongerThanTitle(soup, div, h)
           /\ section # div
           /\ ident_container = section

\* C8 as stated: every section returned has a rendered text strictly longer
\* than the text of the heading that located it.
C8_SectionLongerThanHeading ==
    Scraped =>
        \A i \in 1..2 :
            Searches[i][2] # 0 =>
                Len(NodeText(soup, Searches[i][2]))
                    > Len(NodeText(soup, OutermostHeading(soup, Searches[i][1])))

\* C8, amended: every section returned either has a rendered text strictly
\* longer than the text of the heading that located it, or is that heading
\* itself (returned when no candidate container is longer).
C8_SectionLongerThanHeadingOrHeading ==
    Scraped =>
        \A i \in 1..2 :
            Searches[i][2] # 0 =>
                LET h == OutermostHeading(soup, Searches[i][1])
                IN  \/ Searches[i][2] = h
                    \/ Len(NodeText(soup, Searches[i][2])) > Len(NodeText(soup, h))

\* A heading alone in a <div>: the heading itself is the section.
C8_Witness ==
    /\ Scraped
    /\ ident_container # 0
    /\ soup[ident_container].tag = "h1"
    /\ soup[soup[ident_container].parent].tag = "div"
    /\ NodeText(soup, ident_container) = NodeText(soup, soup[ident_container].parent)

\* The CanonicalField enumeration: Name, Forename, Sex, DateOfBirth,
\* PlaceOfBirth, CountryOfBirth, Nationality, Height, Weight, EyeColor,
\* HairColor, Languages, Alias, by their column names.
CanonicalFields == {
    <<"N", "o", "m">>, <<"P", "r", "e_acute", "n", "o", "m">>, <<"S", "e", "x", "e">>, <<"D", "a", "t", "e", " ", "d", "e", " ", "n", "a", "i", "s", "s", "a", "n", "c", "e">>, <<"L", "i", "e", "u", " ", "d", "e", " ", "n", "a", "i", "s", "s", "a", "n", "c", "e">>,
    <<"P", "a", "y", "s", " ", "d", "e", " ", "n", "a", "i", "s", "s", "a", "n", "c", "e">>, <<"N", "a", "t", "i", "o", "n", "a", "l", "i", "t", "e_acute">>, <<"T", "a", "i", "l", "l", "e", " ", "(", "c", "m", ")">>, <<"P", "o", "i", "d", "s", " ", "(", "k", "g", ")">>,
    <<"C", "o", "u", "l", "e", "u", "r", " ", "d", "e", "s", " ", "y", "e", "u", "x">>, <<"C", "o", "u", "l", "e", "u", "r", " ", "d", "e", "s", " ", "c", "h", "e", "v", "e", "u", "x">>, <<"L", "a", "n", "g", "u", "e", "s">>, <<"A", "l", "i", "a", "s">> }

\* The returned key is the exact-table entry of the accent-stripped,
\* lowercased, trimmed label if there is one; otherwise what the first
\* applicable substring rule gives, in the order eyes, hair, nation, birth
\* (place, else country, else date); otherwise the raw label.
KeyFollowsTableThenRules ==
    LET key == strip(lower(strip_accents(key_arg)))
        has(word) == Contains(word, key)
        exact == \E i \in 1..Len(KeyMapping) : KeyMapping[i][1] = key
        eyes == has(<<"y", "e", "u", "x">>) \/ has(<<"e", "y", "e", "s">>)
        hair == has(<<"c", "h", "e", "v", "e", "u", "x">>) \/ has(<<"h", "a", "i", "r">>)
        nation == has(<<"n", "a", "t", "i", "o", "n">>)
        birth == has(<<"b", "i", "r", "t", "h">>) \/ has(<<"n", "a", "i", "s", "s", "a", "n", "c", "e">>)
        place == has(<<"l", "i", "e", "u">>) \/ has(<<"p", "l", "a", "c", "e">>)
        country == has(<<"p", "a", "y", "s">>) \/ has(<<"c", "o", "u", "n", "t", "r", "y">>)
    IN  /\ \A i \in 1..Len(KeyMapping) : KeyMapping[i][1] = key => key_ret = KeyMapping[i][2]
        /\ ~exact /\ eyes => key_ret = <<"C", "o", "u", "l", "e", "u", "r", " ", "d", "e", "s", " ", "y", "e", "u", "x">>
        /\ ~exact /\ ~eyes /\ hair => key_ret = <<"C", "o", "u", "l", "e", "u", "r", " ", "d", "e", "s", " ", "c", "h", "e", "v", "e", "u", "x">>
        /\ ~exact /\ ~eyes /\ ~hair /\ nation => key_ret = <<"N", "a", "t", "i", "o", "n", "a", "l", "i", "t", "e_acute">>
        /\ ~exact /\ ~eyes /\ ~hair /\ ~nation /\ birth /\ place
              => key_ret = <<"L", "i", "e", "u", " ", "d", "e", " ", "n", "a", "i", "s", "s", "a", "n", "c", "e">>
        /\ ~exact /\ ~eyes /\ ~hair /\ ~nation /\ birth /\ ~place /\ country
              => key_ret = <<"P", "a", "y", "s", " ", "d", "e", " ", "n", "a", "i", "s", "s", "a", "n", "c", "e">>
        /\ ~exact /\ ~eyes /\ ~hair /\ ~nation /\ birth /\ ~place /\ ~country
              => key_ret = <<"D", "a", "t", "e", " ", "d", "e", " ", "n", "a", "i", "s", "s", "a", "n", "c", "e">>
        /\ ~exact /\ ~eyes /\ ~hair /\ ~nation /\ ~birth => key_ret = key_arg

\* C9 as stated: the key follows the table, then the ordered rules, and is
\* always a member of the CanonicalField enumeration or the raw label.
C9_KeyIsCanonicalFieldOrRawLabel ==
    key_pc = "return" =>
        /\ KeyFollowsTableThenRules
        /\ key_ret \in CanonicalFields \/ key_ret = key_arg

\* C9, amended: the key follows the table, then the ordered rules, and is
\* always a member of the CanonicalField enumeration, the table's further
\* column "Identite" (with its accent), or the raw label.
C9_KeyIsTableColumnOrRawLabel ==
    key_pc = "return" =>
        /\ KeyFollowsTableThenRules
        /\ \/ key_ret \in CanonicalFields
           \/ key_ret = <<"I", "d", "e", "n", "t", "i", "t", "e_acute">>
           \/ key_ret = key_arg

\* A label the table sends to the column outside the enumeration.
C9_Witness ==
    /\ key_pc = "return"
    /\ key_arg = <<"I", "D", "E", "N", "T", "I", "T", "E_ACUTE", "s">>
    /\ key_ret = <<"I", "d", "e", "n", "t", "i", "t", "e_acute">>

\* C10: Age is computed from the first four digit characters of the stored
\* birth date read as a year: when 1900 <= year <= current year and
\* current year - year > 0 it is that difference in decimal, otherwise it is
\* empty; so Age is empty or an integer in [1, current year - 1900], and
\* "1980" gives current year - 1980.
\* The digit characters are those str.isdigit accepts; four that int
\* cannot read (a superscript two among them) are no year, and Age is empty.
C10_AgeFromFirstFourDigits ==
    age_pc = "return" =>
        LET ds == SelectSeq(age_arg, isdigit)
            isYear == Len(ds) >= 4 /\ \A i \in 1..4 : IsDecimal(ds[i])
            year == int(SubSeq(ds, 1, 4))
        IN  /\ IF isYear /\ 1900 <= year /\ year <= current_year /\ current_year - year > 0
               THEN /\ age_ret # <<>>
                    /\ \A i \in 1..Len(age_ret) : IsDecimal(age_ret[i])
                    /\ age_ret[1] # "0"
                    /\ int(age_ret) = current_year - year
               ELSE age_ret = <<>>
            /\ \/ age_ret = <<>>
               \/ int(age_ret) \in 1..(current_year - 1900)
            /\ age_arg = <<"1", "9", "8", "0">> /\ current_year = 2026 => age_ret = <<"4", "6">>
            /\ age_arg = <<"1", "9", "8", "0">> /\ current_year = 2027 => age_ret = <<"4", "7">>

\* The birth date "1980" read in 2026.
C10_Witness ==
    /\ age_pc = "return"
    /\ age_arg = <<"1", "9", "8", "0">>
    /\ current_year = 2026
    /\ age_ret = <<"4", "6">>

\* What extract_identification returned for the section.
Identified == extract_pc = "identification"

\* C11: every pair the inline-label strategy emits has a non-empty label and
\* a non-empty value, and no item with an empty label or an empty value
\* reaches the record.
C11_InlinePairsHaveLabelAndValue ==
    Identified =>
        /\ \A i \in 1..Len(item_pairs) :
              item_pairs[i][1] # <<>> /\ item_pairs[i][2] # <<>>
        /\ ~DictHas(section_fields, <<>>)


\* The texts of the elements of the section with one of the tags, inside el.
TextsIn(el, tags) == NodeTexts(section_doc, find_all(section_doc, el, tags))

\* The pairs of one definition list: term i with description i, for the
\* i up to min(m, n) where a side has text.
TermDescriptionPairs(dl) ==
    LET terms == TextsIn(dl, {"dt"})
        descriptions == TextsIn(dl, {"dd"})
        kept == SelectSeq(NodeIds(Min(Len(terms), Len(descriptions))),
                          LAMBDA i : terms[i] # <<>> \/ descriptions[i] # <<>>)
    IN  SubSeq([k \in 1..Len(kept) |-> <<terms[kept[k]], descriptions[kept[k]]>>],
               1, Len(kept))

\* The section is one list with the terms Nom, Date de naissance and the
\* descriptions Dupont, 1980.
NomDateList ==
    /\ Len(section_doc) = 6
    /\ \A n \in 3..6 : section_doc[n].parent = 2
    /\ TextsIn(2, {"dt"}) = <<<<"N", "o", "m">>, <<"D", "a", "t", "e", " ", "d", "e", " ", "n", "a", "i", "s", "s", "a", "n", "c", "e">>>>
    /\ TextsIn(2, {"dd"}) = <<<<"D", "u", "p", "o", "n", "t">>, <<"1", "9", "8", "0">>>>

\* C12: the definition-list strategy emits, list after list, the pairs (term i,
\* description i) for the i up to min(m, n) where a side is non-empty, in index
\* order, and nothing else; the terms Nom, Date de naissance with the
\* descriptions Dupont, 1980 give exactly (Nom, Dupont), (Date de naissance, 1980).
C12_TermsPairedWithDescriptions ==
    Identified =>
        LET dls == find_all(section_doc, 1, {"dl"})
        IN  /\ dl_pairs = Concat([i \in 1..Len(dls) |-> TermDescriptionPairs(dls[i])])
            /\ NomDateList =>
                  dl_pairs = << <<<<"N", "o", "m">>, <<"D", "u", "p", "o", "n", "t">>>>,
                                <<<<"D", "a", "t", "e", " ", "d", "e", " ", "n", "a", "i", "s", "s", "a", "n", "c", "e">>, <<"1", "9", "8", "0">>>> >>

C12_Witness == Identified /\ NomDateList


\* The pair of one table row: the first cell's text and the texts of the
\* other cells joined by one space.
CellsPair(tr) ==
    LET cells == TextsIn(tr, {"td", "th"})
    IN  <<cells[1], join(<<" ">>, Tail(cells))>>

\* The rows of the tables of the section, table after table, a row once for
\* every table it is in.
TableRows ==
    LET tables == find_all(section_doc, 1, {"table"})
    IN  Concat([i \in 1..Len(tables) |-> find_all(section_doc, tables[i], {"tr"})])

\* The row has exactly two cells and both are empty.
TwoEmptyCells(tr) == TextsIn(tr, {"td", "th"}) = << <<>>, <<>> >>

\* The section is one table with the one row Nationalite, Francaise, Belge.
NationaliteRow ==
    /\ Len(section_doc) = 6
    /\ section_doc[3].tag = "tr" /\ section_doc[3].parent = 2
    /\ \A n \in 4..6 : section_doc[n].parent = 3
    /\ TextsIn(3, {"td", "th"}) = <<<<"N", "a", "t", "i", "o", "n", "a", "l", "i", "t", "e_acute">>, <<"F", "r", "a", "n", "c_cedilla", "a", "i", "s", "e">>, <<"B", "e", "l", "g", "e">>>>

\* C13 as stated: every table row of two cells or more gives one pair, the
\* first cell's text and the other cells' texts joined by one space, and a row
\* of fewer than two cells gives nothing.
C13_EveryRowGivesOnePair ==
    Identified =>
        LET trs == TableRows
        IN  table_pairs =
                Concat([i \in 1..Len(trs) |->
                           IF Len(TextsIn(trs[i], {"td", "th"})) >= 2
                           THEN <<CellsPair(trs[i])>> ELSE <<>>])

\* C13, amended: every table row of two cells or more gives one pair, the
\* first cell's text and the other cells' texts joined by one space, unless it
\* has exactly two cells and both are empty; such a row and a row of fewer
\* than two cells give nothing.  The row Nationalite, Francaise, Belge gives
\* (Nationalite, "Francaise Belge").
C13_EveryRowWithTextGivesOnePair ==
    Identified =>
        LET trs == TableRows
        IN  /\ table_pairs =
                  Concat([i \in 1..Len(trs) |->
                             IF /\ Len(TextsIn(trs[i], {"td", "th"})) >= 2
                                /\ ~TwoEmptyCells(trs[i])
                             THEN <<CellsPair(trs[i])>> ELSE <<>>])
            /\ NationaliteRow =>
                  table_pairs = << <<<<"N", "a", "t", "i", "o", "n", "a", "l", "i", "t", "e_acute">>, <<"F", "r", "a", "n", "c_cedilla", "a", "i", "s", "e", " ", "B", "e", "l", "g", "e">>>> >>

C13_Witness == Identified /\ NationaliteRow


\* What extract_qualification returned for the section.
Qualified == extract_pc = "qualification"

\* The non-empty cleaned texts of the elements of the section with the tag.
TextsWithContent(tag) == SelectSeq(TextsIn(1, {tag}), LAMBDA txt : txt # <<>>)

\* C14: the summary is the "; "-join of the non-empty cleaned texts of the list
\* items of the section, in document order, or of its paragraphs when and only
\* when no list item has text, cut to its first 1000 characters; with no list
\* item and two paragraphs it is the two paragraph texts joined by "; ".
C14_SummaryOfItemsElseParagraphs ==
    Qualified =>
        LET items == TextsWithContent("li")
            paragraphs == TextsWithContent("p")
            whole == join(<<";", " ">>, IF items = <<>> THEN paragraphs ELSE items)
        IN  /\ Len(charges) = Min(Len(whole), 1000)
            /\ charges = SubSeq(whole, 1, Len(charges))
            /\ (find_all(section_doc, 1, {"li"}) = <<>> /\ Len(paragraphs) = 2)
                  => charges = paragraphs[1] \o <<";", " ">> \o paragraphs[2]

\* No list item, the two paragraphs ": Dupont" and "a: b: c".
C14_Witness ==
    /\ Qualified
    /\ find_all(section_doc, 1, {"li"}) = <<>>
    /\ TextsIn(1, {"p"}) = <<<<":", " ", "D", "u", "p", "o", "n", "t">>, <<"a", ":", " ", "b", ":", " ", "c">>>>
    /\ charges = <<":", " ", "D", "u", "p", "o", "n", "t", ";", " ", "a", ":", " ", "b", ":", " ", "c">>


\* The columns normalize_identification_key has a mapping to.
MappedColumns == {KeyMapping[i][2] : i \in 1..Len(KeyMapping)}

\* "label: value" for the fields of the notice that have no column of
\* their own, in the order of the fields.
UnmappedFields ==
    LET kept == SelectSeq(row_self.fields,
                          LAMBDA f : f[1] \notin MappedColumns /\ f[2] # <<>>)
    IN  SubSeq([i \in 1..Len(kept) |-> kept[i][1] \o <<":", " ">> \o kept[i][2]],
               1, Len(kept))

\* C15: every field with no canonical mapping and a non-empty value is kept in
\* "Identification - autres" as "label: value", in encounter order, up to the
\* cutoff of 1000 characters, also when its label is the name of an output
\* column such as URL or Infractions.
C15_UnmappedFieldsAreKept ==
    row_pc = "return" =>
        DictGet(row_ret, <<"I", "d", "e", "n", "t", "i", "f", "i", "c", "a", "t", "i", "o", "n", " ", "-", " ", "a", "u", "t", "r", "e", "s">>)
            = Truncate(join(<<";", " ">>, UnmappedFields))


\* Where the parts of a stored value begin: at its first character and
\* after every "; ".
PartStarts(text) ==
    {1} \cup {i + 2 : i \in {j \in 1..(Len(text) - 1) : text[j] = ";" /\ text[j + 1] = " "}}

\* The part of a stored value that begins at `start`: up to the next "; ".
PartAt(text, start) ==
    LET ends == {i \in start..(Len(text) - 1) : text[i] = ";" /\ text[i + 1] = " "}
    IN  IF ends = {} THEN SubSeq(text, start, Len(text))
        ELSE SubSeq(text, start, (CHOOSE i \in ends : \A j \in ends : i <= j) - 1)

\* No two "; "-separated parts of the stored value are the same.
NoPartTwice(text) ==
    \A s1, s2 \in PartStarts(text) :
        s1 # s2 => PartAt(text, s1) # PartAt(text, s2)

\* Two pairs that normalize to the same field, with the value Francaise.
FrancaiseTwice ==
    ident_pairs = << <<<<"N", "a", "t", "i", "o", "n", "a", "l", "i", "t", "e_acute">>, <<"F", "r", "a", "n", "c_cedilla", "a", "i", "s", "e">>>>,
                     <<<<"n", "a", "t", "i", "o", "n", "a", "l", "i", "t", "y">>, <<"F", "r", "a", "n", "c_cedilla", "a", "i", "s", "e">>>> >>

\* C16 as stated: whatever pairs were folded, no stored value holds the same
\* value twice among its "; "-separated parts.
C16_NoValueTwiceAmongParts ==
    \A i \in 1..Len(data) : NoPartTwice(data[i][2])

\* C16, amended: when none of the folded values holds a "; " itself, no stored
\* value holds the same value twice among its "; "-separated parts; two pairs
\* for Nationality with the same value Francaise leave exactly Francaise.
C16_NoValueTwiceWithoutSeparator ==
    /\ (\A i \in 1..Len(ident_pairs) : ~Contains(<<";", " ">>, PairVal(ident_pairs[i])))
          => \A i \in 1..Len(data) : NoPartTwice(data[i][2])
    /\ FrancaiseTwice => data = << <<<<"N", "a", "t", "i", "o", "n", "a", "l", "i", "t", "e_acute">>, <<"F", "r", "a", "n", "c_cedilla", "a", "i", "s", "e">>>> >>

C16_Witness ==
    FrancaiseTwice /\ data = << <<<<"N", "a", "t", "i", "o", "n", "a", "l", "i", "t", "e_acute">>, <<"F", "r", "a", "n", "c_cedilla", "a", "i", "s", "e">>>> >>


RequestsOf(c) == SelectSeq(sent, LAMBDA r : r.call = c)

\* The request was answered with the status 403.
Forbidden(r) == ~r.outcome.raised /\ r.outcome.status = 403

\* The headers hold none of the sec-*, priority and x-requested-with headers
\* and hold every default header with its default value.
Relaxed(headers) ==
    /\ \A i \in 1..Len(headers) : headers[i][1] \notin SimplifiedAway
    /\ \A name \in {"accept", "accept-language", "origin", "referer", "user-agent"} :
          /\ DictHas(headers, name)
          /\ DictGet(headers, name) = DictGet(default_headers(environ), name)
    /\ DictGet(headers, "accept") = "application/json, text/plain, */*"

\* C18: a call of fetch_page sends at most two requests, the second one only
\* after a 403 on the first, for the same page and with the session's headers
\* relaxed (no sec-*, priority, x-requested-with; the default headers); a
\* second 403, a 404, another error status, a body that is not JSON and an
\* exception of the request all make the call return None; once relaxed, the
\* headers stay relaxed for every later request of the session.
C18_OneRetryOn403WithRelaxedHeaders ==
    /\ \A c \in 1..(calls + 1) :
          LET rs == RequestsOf(c)
          IN  /\ Len(rs) <= 2
              /\ Len(rs) = 2 =>
                    /\ Forbidden(rs[1])
                    /\ rs[2].page = rs[1].page
                    /\ Relaxed(rs[2].headers)
              /\ (Len(rs) = 1 /\ Forbidden(rs[1])) => (c = calls + 1 /\ fetch_pc = "retry")
    /\ (calls > 0 /\ fetch_pc = "ready") =>
          LET last == sent[Len(sent)]
          IN  /\ fetch_ret # None <=>
                    (~last.outcome.raised /\ last.outcome.status = 200 /\ last.outcome.json)
              /\ fetch_ret # None => fetch_ret.data = last.page
    /\ \A j \in 1..Len(sent) :
          IF \E i \in 1..(j - 1) : Forbidden(sent[i])
          THEN Relaxed(sent[j].headers)
          ELSE sent[j].headers = create_session
    /\ (\E i \in 1..Len(sent) : Forbidden(sent[i])) => Relaxed(session)

\* A first call answered 403 and then 200, and a second call whose request
\* went out with the relaxed headers.
C18_Witness ==
    /\ Len(sent) = 3 /\ fetch_pc = "ready"
    /\ Forbidden(sent[1])
    /\ sent[2].call = 1 /\ sent[2].outcome.status = 200 /\ sent[2].outcome.json
    /\ sent[3].call = 2 /\ Relaxed(sent[3].headers)
    /\ ~DictHas(sent[3].headers, "priority") /\ DictHas(sent[1].headers, "priority")


\* The number of pages of the claim: ceil(total / 160), capped at max_pages
\* when max_pages is given.
CappedPages ==
    LET by_total == (first_page.total + RESULTS_PER_PAGE - 1) \div RESULTS_PER_PAGE
    IN  IF max_pages.given THEN Min(by_total, max_pages.value) ELSE by_total

\* C19: with N = ceil(total / 160), capped at max_pages when max_pages is
\* given, the loop processes the pages 1, 2, ..., N in increasing order and
\* asks fetch_page for each page at most once, for page 1 exactly once; at the
\* first page without data it stops and returns the persons of the pages
\* before, each with a non-empty Nom or Prenom.
C19_PagesOneToCappedTotal ==
    /\ pages_pc # "start" => (fetched # <<>> /\ fetched[1] = 1)
    /\ \A i, j \in 1..Len(fetched) : i < j => fetched[i] < fetched[j]
    /\ first_page # None =>
          /\ \A i \in 1..Len(fetched) : fetched[i] = 1 \/ fetched[i] <= CappedPages
          /\ pages_pc = "loop" =>
                (total_pages = CappedPages /\ page_no <= CappedPages + 1)
    /\ pages_pc = "done" =>
          /\ people_ret = all_people
          /\ \A i \in 1..Len(people_ret) :
                people_ret[i].Nom # <<>> \/ people_ret[i].Prenom # <<>>

====
